---- MODULE Spec2Model ----
(***************************************************************************)
(* Model of the Lead Assessment POC backend (src/backend/main.py).         *)
(*                                                                         *)
(* Numbers.  Python floats are modelled as exact fixed-point integers, one *)
(* unit per column (given where the column is defined), wrapped in a cell  *)
(* that also represents NaN, +Infinity, None and strings, as a pandas      *)
(* object cell does.  Rounding of binary floating point is not modelled.   *)
(***************************************************************************)
EXTENDS Integers, Sequences, FiniteSets, TLC

\* Largest number of rows of the CSV lead table that startup loads.
MaxRows == 2
\* The largest number of leads in a prediction request
MaxLeads == 2

----------------------------------------------------------------------------
(* Cells: one value of a DataFrame column, a query parameter or JSON field *)

Num(v) == [k |-> "num", n |-> v, s |-> ""]
Str(x) == [k |-> "str", n |-> 0, s |-> x]
NaN    == [k |-> "nan", n |-> 0, s |-> ""]
Inf    == [k |-> "inf", n |-> 0, s |-> ""]
None   == [k |-> "none", n |-> 0, s |-> ""]
Bool(b) == [k |-> "bool", n |-> IF b THEN 1 ELSE 0, s |-> ""]

\* pd.isna / Series.notna
isna(c) == c.k \in {"nan", "none"}

\* Series.fillna(d): only missing cells are replaced, infinities are kept
fillna(c, d) == IF c.k = "nan" THEN d ELSE c

\* Series.where(Series.notna(), None)
where_notna(c) == IF isna(c) THEN None ELSE c

\* float addition of two numeric cells
Add(a, b) ==
    IF a.k = "nan" \/ b.k = "nan" THEN NaN
    ELSE IF a.k = "inf" \/ b.k = "inf" THEN Inf
    ELSE Num(a.n + b.n)     \* a bool cell counts as 0 or 1

\* float multiplication of a numeric cell by a positive constant
Mul(a, c) ==
    IF a.k = "nan" THEN NaN
    ELSE IF a.k = "inf" THEN Inf
    ELSE Num(a.n * c)

\* elementwise comparisons of a column cell with a finite bound; every
\* comparison with NaN is False
\* Faulty variant of Ge: the comparison sees the cleaned cell, fillna(0)
Ge_filled(a, b) == (a.k = "inf") \/ (fillna(a, Num(0)).k = "num"
                                     /\ fillna(a, Num(0)).n >= b.n)
Ge(a, b) == (a.k = "inf") \/ (a.k = "num" /\ a.n >= b.n)
\* Faulty variant of Le: the upper bound compared as a lower bound
Le_as_ge(a, b) == Ge(a, b)
Le(a, b) == a.k = "num" /\ a.n <= b.n
Gt(a, b) == (a.k = "inf") \/ (a.k = "num" /\ a.n > b.n)
Eq(a, b) ==
    a.k = b.k /\ a.k \in {"num", "str", "bool"} /\ a.n = b.n /\ a.s = b.s

\* Python truthiness of an Optional[str] parameter: None and "" are falsy
\* Faulty variant of Truthy: the test  is not None
Truthy_not_none(p) == p.k = "str"
Truthy(p) == p.k = "str" /\ p.s # ""

----------------------------------------------------------------------------
(* DataFrames: sequences of rows; idx is the index label of the row        *)

\* df[mask]: boolean-mask selection keeps the rows whose mask entry is True
RECURSIVE Where(_, _)
Where(df, mask) ==
    IF df = <<>> THEN <<>>
    ELSE LET rest == Where(Tail(df), [i \in 1..(Len(df) - 1) |-> mask[i + 1]])
         IN IF mask[1] THEN <<Head(df)>> \o rest ELSE rest

\* the comparison operators the handlers use, by name
Compare(op, a, b) ==
    CASE op = "Ge" -> Ge(a, b)
      [] op = "Le" -> Le(a, b)
      [] op = "Gt" -> Gt(a, b)
      [] op = "Eq" -> Eq(a, b)

\* the boolean mask  df[field] <op> bound
Mask(df, field, op, bound) ==
    [i \in 1..Len(df) |-> Compare(op, df[i][field], bound)]

\* if cond: df = df[df[field] <op> bound]
FilterIf(cond, df, field, op, bound) ==
    IF cond THEN Where(df, Mask(df, field, op, bound)) ELSE df

\* a row extended with newly assigned columns
WithColumns(row, new) ==
    [f \in (DOMAIN row) \cup (DOMAIN new) |->
        IF f \in DOMAIN new THEN new[f] ELSE row[f]]

\* the sum of the non-missing cells of a column
RECURSIVE SumCells(_, _)
SumCells(df, col) ==
    IF df = <<>> THEN Num(0)
    ELSE IF isna(Head(df)[col]) THEN SumCells(Tail(df), col)
    ELSE Add(Head(df)[col], SumCells(Tail(df), col))

CountCells(df, col) ==
    Cardinality({i \in 1..Len(df) : ~isna(df[i][col])})

\* Series.sum(): the sum of the non-missing cells
ColSum(df, col) ==
    LET t == SumCells(df, col) IN IF t.k = "inf" THEN Inf ELSE Num(t.n)

\* Series.mean(): the mean of the non-missing cells, NaN when there are
\* none; in 1/scale of the column's unit, rounded down
ColMean(df, col, scale) ==
    LET t == SumCells(df, col)
        c == CountCells(df, col)
    IN IF c = 0 THEN NaN
       ELSE IF t.k = "inf" THEN Inf
       ELSE Num((t.n * scale) \div c)

\* len(df[mask])
CountWhere(df, mask) == Len(Where(df, mask))

\* Series.value_counts().to_dict(): the count of every non-missing value
value_counts(df, col) ==
    [v \in {df[i][col].s : i \in {j \in 1..Len(df) : ~isna(df[j][col])}} |->
        Num(Cardinality({i \in 1..Len(df) :
                           ~isna(df[i][col]) /\ df[i][col].s = v}))]

\* df.groupby(key)[col].mean().to_dict(): the mean of col over the rows of
\* every non-missing key
GroupMean(df, key, col, scale) ==
    [v \in {df[i][key].s : i \in {j \in 1..Len(df) : ~isna(df[j][key])}} |->
        ColMean(Where(df, [i \in 1..Len(df) |->
                             ~isna(df[i][key]) /\ df[i][key].s = v]),
                col, scale)]

\* DataFrame.head(n): first n rows; for negative n all but the last -n rows
\* Faulty variant of head: no truncation
head_all(df, n) == df
head(df, n) ==
    LET m == IF n >= 0 THEN (IF n < Len(df) THEN n ELSE Len(df))
             ELSE (IF Len(df) + n > 0 THEN Len(df) + n ELSE 0)
    IN SubSeq(df, 1, m)

\* order of two non-missing sort keys, descending
KeyGe(a, b) == (a.k = "inf") \/ (a.k = "num" /\ b.k = "num" /\ a.n >= b.n)

\* The orders DataFrame.sort_values(key, ascending=False) can produce: rows
\* with a non-missing key in non-increasing key order (the default quicksort
\* leaves the order of equal keys unspecified), rows with a missing key last
\* in their original order.
SortOrders(df, key) ==
    LET nonnan == Where(df, [i \in 1..Len(df) |-> ~isna(df[i][key])])
        m == Len(nonnan)
    IN { o \in [1..m -> 1..m] :
            /\ \A i, j \in 1..m : i # j => o[i] # o[j]
            /\ \A i, j \in 1..m :
                  i < j => KeyGe(nonnan[o[i]][key], nonnan[o[j]][key]) }

sort_values(df, key, o) ==
    LET nonnan == Where(df, [i \in 1..Len(df) |-> ~isna(df[i][key])])
        nans == Where(df, [i \in 1..Len(df) |-> isna(df[i][key])])
    IN [i \in 1..Len(nonnan) |-> nonnan[o[i]]] \o nans

\* clean_data_for_json on one value: NaN and None become None (JSON null);
\* every other value, an infinity included, is returned as it is
clean_value(c) == IF isna(c) THEN None ELSE c

\* convert_numpy_types on a numpy float: NaN and the infinities become 0.0
convert_numpy_float(c) == IF c.k \in {"nan", "inf"} THEN Num(0) ELSE c

\* clean_data_for_json on a list of records
clean_data_for_json(records) ==
    [i \in 1..Len(records) |->
        [f \in DOMAIN records[i] |-> clean_value(records[i][f])]]

\* DataFrame.to_dict("records"): the index is not part of the records
to_dict_records(df) ==
    [i \in 1..Len(df) |->
        [f \in (DOMAIN df[i]) \ {"idx"} |-> df[i][f]]]

----------------------------------------------------------------------------
(* The CSV lead table.  Units: nr_fit_score in 1/1000, employee_count in   *)
(* employees, revenue and contract_value in dollars.                       *)

Row(name, ind, emp, rev, pages, fit, tier, cv, tool, conv) ==
    [company_name |-> Str(name), industry |-> ind, employee_count |-> emp,
     revenue |-> rev, pages_visited |-> pages, nr_fit_score |-> fit,
     nr_tier |-> tier, contract_value |-> cv, competitor_tool |-> tool,
     converted |-> conv]

\* The rows a CSV file may hold: complete rows, a row whose optional cells
\* are all empty, and a row with negative and infinite numbers.
RowPool ==
    { Row("Acme", Str("Technology"), Num(2000), Num(5000000), Num(25),
          Num(900),
          Str("Pro"), Num(120000), Str("Datadog"), Bool(TRUE)),
      Row("Bolt", Str("Healthcare"), Num(10), Num(100000), Num(3), Num(100),
          Str("Free"), Num(0), NaN, Bool(FALSE)),
      Row("Cryo", Str("Healthcare"), NaN, NaN, NaN, NaN, NaN, NaN, NaN,
          Bool(FALSE)),
      Row("Dune", Str("Technology"), Num(40), Num(-30000000), Num(8),
          Num(-1000),
          Str("Standard"), Inf, Str("Splunk"), Bool(TRUE)) }

\* pd.read_csv: the rows of the file under a RangeIndex 0..n-1
read_csv(rows) ==
    [i \in 1..Len(rows) |-> [f \in (DOMAIN rows[i]) \cup {"idx"} |->
        IF f = "idx" THEN Num(i - 1) ELSE rows[i][f]]]

CsvFiles == UNION { [1..n -> RowPool] : n \in 0..MaxRows }

\* A module-level DataFrame global: None, or a frame of rows
NoFrame == [none |-> TRUE, rows |-> <<>>]
Frame(rows) == [none |-> FALSE, rows |-> rows]

----------------------------------------------------------------------------
(* Process state                                                           *)

VARIABLES
    pc,                 \* "boot" before startup_event, "idle" between
                        \* requests, "responded" when a handler has returned
    model,              \* the summary backend handle: "configured" or "None"
    propensity_model,   \* "loaded" or "None"
    value_model,        \* "loaded" or "None"
    leads_data,         \* the in-memory lead table
    log,                \* the two lines startup_event printed
    req,                \* the locals and the response of the handler that ran
    backend_calls,      \* generate_content calls made by that handler
    caught              \* the exception generate_executive_summary caught
                        \* in that handler, "None" when it caught none

vars == <<pc, model, propensity_model, value_model, leads_data, log, req,
          backend_calls, caught>>

\* req.draws are the clock reading and the random numbers the handler drew,
\* req.filtered the index labels of filtered_data before sort and head
NoParams == [limit |-> 0]
NoDraws == [now |-> 0]
NoRequest == [endpoint |-> "none", params |-> NoParams, draws |-> NoDraws,
              status |-> 0, detail |-> "", body |-> <<>>, filtered |-> <<>>]

\* The module is imported: the globals are None, the backend handle is set
\* from the environment (GEMINI_API_KEY present and usable, or not)
Init ==
    /\ pc = "boot"
    /\ model \in {"configured", "None"}
    /\ propensity_model = "None"
    /\ value_model = "None"
    /\ leads_data = NoFrame
    /\ log = <<>>
    /\ req = NoRequest
    /\ backend_calls = 0
    /\ caught = "None"

\* str.lower() on the values FAST_START is given here
lower(s) ==
    CASE s = "TRUE" -> "true"
      [] s = "True" -> "true"
      [] s = "Yes" -> "yes"
      [] s = "FALSE" -> "false"
      [] OTHER -> s

\* Faulty variant of fast_start: the flag compared without lower()
fast_start_case_sensitive(value) == value \in {"1", "true", "yes"}
\* os.getenv("FAST_START", "false").lower() in ["1", "true", "yes"]
fast_start(value) == lower(value) \in {"1", "true", "yes"}

\* Faulty variant of load_models: no reset in the except branch, so the
\* blob that did load stays
load_models_partial(propensity_ok, value_ok) ==
    IF propensity_ok /\ value_ok
    THEN [propensity_model |-> "loaded", value_model |-> "loaded",
          log |-> "Models loaded successfully"]
    ELSE [propensity_model |-> IF propensity_ok THEN "loaded" ELSE "None",
          value_model |-> "None", log |-> "Models not found or failed to load"]
\* The try block of startup_event: joblib.load of the propensity blob, then
\* of the value blob; an exception in either sets both globals to None
load_models(propensity_ok, value_ok) ==
    IF propensity_ok /\ value_ok
    THEN [propensity_model |-> "loaded", value_model |-> "loaded",
          log |-> "Models loaded successfully"]
    ELSE [propensity_model |-> "None", value_model |-> "None",
          log |-> "Models not found or failed to load"]

\* the else branch of startup_event: no load is attempted
skip_models ==
    [propensity_model |-> "None", value_model |-> "None",
     log |-> "FAST_START enabled: skipping model load"]

\* The try block around pd.read_csv("data/sample_leads.csv")
load_data(csv_ok, rows) ==
    IF csv_ok
    THEN [leads_data |-> Frame(read_csv(rows)),
          log |-> "Sample data loaded successfully"]
    ELSE [leads_data |-> NoFrame,
          log |-> "Sample data not found or failed to load"]

\* startup_event: load the two model blobs unless FAST_START, then the CSV.
\* FastStart is the set of values of the FAST_START environment variable
\* the process may be started with, Files the set of contents the CSV file
\* may have; either blob and the CSV may be missing or unreadable.
startup_event(FastStart, Files) ==
    /\ pc = "boot"
    /\ \E value \in FastStart, propensity_ok \in BOOLEAN,
          value_ok \in BOOLEAN, csv_ok \in BOOLEAN, rows \in Files :
          LET models == IF ~fast_start(value)
                        THEN load_models(propensity_ok, value_ok)
                        ELSE skip_models
              data == load_data(csv_ok, rows)
          IN /\ propensity_model' = models.propensity_model
             /\ value_model' = models.value_model
             /\ leads_data' = data.leads_data
             /\ log' = <<models.log, data.log>>
    /\ pc' = "idle"
    /\ UNCHANGED <<model, req, backend_calls, caught>>

\* Faulty variant of NotFound: an empty 200 answer instead of the exception
NotFound_as_empty(endpoint, p) ==
    [endpoint |-> endpoint, params |-> p, draws |-> NoDraws, status |-> 200,
     detail |-> "", body |-> <<>>, filtered |-> <<>>]

\* raise HTTPException(status_code=404, detail="No leads data available")
NotFound(endpoint, p) ==
    [endpoint |-> endpoint, params |-> p, draws |-> NoDraws, status |-> 404,
     detail |-> "No leads data available", body |-> <<>>, filtered |-> <<>>]

\* Faulty variant of Ok: no answer but 404 while the table is missing
Ok_requires_table(endpoint, p, d, body, filtered_data) ==
    IF leads_data.none
    THEN [endpoint |-> endpoint, params |-> p, draws |-> NoDraws,
          status |-> 404, detail |-> "No leads data available",
          body |-> <<>>, filtered |-> <<>>]
    ELSE [endpoint |-> endpoint, params |-> p, draws |-> d, status |-> 200,
          detail |-> "", body |-> body,
          filtered |->
              [i \in 1..Len(filtered_data) |-> filtered_data[i].idx.n]]
\* a handler that returns normally: HTTP 200 with the returned value as body
Ok(endpoint, p, d, body, filtered_data) ==
    [endpoint |-> endpoint, params |-> p, draws |-> d, status |-> 200,
     detail |-> "", body |-> body,
     filtered |-> [i \in 1..Len(filtered_data) |-> filtered_data[i].idx.n]]

\* Faulty variant of df_copy: no copy, the handler works on the global
df_copy_alias(ref) == ref
\* DataFrame.copy() returns a new object: writes to it do not reach the
\* object it was copied from
df_copy(ref) == "private"

\* The two frames after column assignments through ref turned the frame
\* into written
AssignColumns(ld, ref, written) ==
    [[leads_data |-> ld, private |-> ld] EXCEPT ![ref] = written]

\* the response has been sent; the handler's locals are dropped
Finish ==
    /\ pc = "responded"
    /\ pc' = "idle"
    /\ req' = NoRequest
    /\ backend_calls' = 0
    /\ caught' = "None"
    /\ UNCHANGED <<model, log, propensity_model, value_model, leads_data>>

----------------------------------------------------------------------------
(* GET /api/leads                                                          *)

\* limit is any integer
Limits == {-1, 0, 1, 10}

\* the fillna block of get_leads
LeadsClean(df) ==
    [i \in 1..Len(df) |->
        [df[i] EXCEPT !.nr_fit_score = fillna(@, Num(0)),
                      !.nr_tier = fillna(@, Str("Standard")),
                      !.contract_value = fillna(@, Num(0)),
                      !.competitor_tool = where_notna(@)]]

get_leads ==
    /\ pc = "idle"
    /\ \E limit \in Limits :
        LET p == [limit |-> limit] IN
        IF leads_data.none
        THEN /\ req' = NotFound("leads", p)
             /\ leads_data' = leads_data
        ELSE LET ref == df_copy("leads_data")
                 heap == AssignColumns(leads_data.rows, ref,
                             LeadsClean(head(leads_data.rows, limit)))
                 clean_data == heap[ref]
                 records == to_dict_records(clean_data)
             IN /\ req' = Ok("leads", p, NoDraws,
                             clean_data_for_json(records), leads_data.rows)
                /\ leads_data' = Frame(heap.leads_data)
    /\ pc' = "responded"
    /\ UNCHANGED <<model, log, propensity_model, value_model,
                 backend_calls, caught>>

----------------------------------------------------------------------------
(* GET /api/leads/sourcing.  Units: sourcing_score in 1e-7, created_at in  *)
(* hours after 2024-01-01 00:00, the clock (now) in the same hours.        *)

IndustryParams == {None, Str(""), Str("Technology")}

\* the optional query parameters a request supplies
Supplied(p) == {f \in (DOMAIN p) \ {"limit"} : p[f] # None}

\* The requests of a parameter grid that supply at most k optional
\* parameters.  With k = 2 every pair of filters, and every min/max pair of
\* one field, is combined.
AtMost(k, grid) == {p \in grid : Cardinality(Supplied(p)) <= k}

\* pd.Timestamp.now() at the time of the request
NowHours == {4800, 16812}

HoursInRange == 8760    \* 2024-01-01 .. 2024-12-31 is 365 days

\* pd.date_range(start, end, periods=n)[i]: n evenly spaced instants
date_range(n, i) == IF n <= 1 THEN 0 ELSE ((i - 1) * HoursInRange) \div (n - 1)

\* (now - created_at).dt.days: whole days, rounded down
days_since(now, created) == (now - created) \div 24

\* Faulty variant of sourcing_score: the revenue term is left out
sourcing_score_no_revenue(row) ==
    Add(Mul(row.nr_fit_score, 4000), Mul(row.employee_count, 3000))
\* nr_fit_score*0.4 + (employee_count/1000)*0.3 + (revenue/1000000)*0.3
sourcing_score(row) ==
    Add(Add(Mul(row.nr_fit_score, 4000), Mul(row.employee_count, 3000)),
        Mul(row.revenue, 3))

\* the three column assignments of get_lead_sourcing_data
SourcingDerive(df, now) ==
    [i \in 1..Len(df) |->
        WithColumns(df[i],
            [created_at |-> Num(date_range(Len(df), i)),
             days_since_created |->
                 Num(days_since(now, date_range(Len(df), i))),
             sourcing_score |-> sourcing_score(df[i])])]

SourcingFloor == 6000000    \* 0.6

\* Faulty variant of DefaultFloorApplies: the floor is always applied
DefaultFloorAlways(p) == TRUE
\* if min_sourcing_score is None and max_sourcing_score is None
DefaultFloorApplies(p) ==
    p.min_sourcing_score = None /\ p.max_sourcing_score = None

\* the filter chain of get_lead_sourcing_data, one df[mask] per supplied
\* parameter, then the default floor
SourcingFilter(df, p) ==
    LET f1 == FilterIf(Truthy(p.industry), df,
                       "industry", "Eq", p.industry)
        f2 == FilterIf(p.min_employee_count # None, f1,
                       "employee_count", "Ge", p.min_employee_count)
        f3 == FilterIf(p.max_employee_count # None, f2,
                       "employee_count", "Le", p.max_employee_count)
        f4 == FilterIf(p.min_sourcing_score # None, f3,
                       "sourcing_score", "Ge", p.min_sourcing_score)
        f5 == FilterIf(p.max_sourcing_score # None, f4,
                       "sourcing_score", "Le", p.max_sourcing_score)
        f6 == FilterIf(p.days_since_created_max # None, f5,
                       "days_since_created", "Le", p.days_since_created_max)
    IN FilterIf(DefaultFloorApplies(p),
                f6, "sourcing_score", "Gt", Num(SourcingFloor))

\* the fillna block of get_lead_sourcing_data
SourcingClean(df) ==
    [i \in 1..Len(df) |->
        [df[i] EXCEPT !.nr_fit_score = fillna(@, Num(0)),
                      !.nr_tier = fillna(@, Str("Standard")),
                      !.contract_value = fillna(@, Num(0)),
                      !.competitor_tool = where_notna(@),
                      !.sourcing_score = fillna(@, Num(0)),
                      !.days_since_created = fillna(@, Num(0))]]

SourcingFilters ==
    [industry : IndustryParams,
     min_employee_count : {None, Num(40)},
     max_employee_count : {None, Num(10), Num(2000)},
     min_sourcing_score : {None, Num(0), Num(7000000)},
     max_sourcing_score : {None, Num(6000000)},
     days_since_created_max : {None, Num(400)}]

\* a parameter grid with the limit parameter added
WithLimit(grid, limits) ==
    {WithColumns(p, [limit |-> l]) : p \in grid, l \in limits}

\* P is the set of query-parameter records, Clock the set of readings of
\* the clock the requests are drawn from.
get_lead_sourcing_data(P, Clock) ==
    /\ pc = "idle"
    /\ \E p \in P, now \in Clock :
        IF leads_data.none
        THEN /\ req' = NotFound("sourcing", p)
             /\ leads_data' = leads_data
        ELSE LET ref == df_copy("leads_data")
                 heap == AssignColumns(leads_data.rows, ref,
                             SourcingDerive(leads_data.rows, now))
                 sourcing_data == heap[ref]
                 filtered_data == SourcingFilter(sourcing_data, p)
             IN \E o \in SortOrders(filtered_data, "sourcing_score") :
                 LET sorted == head(sort_values(filtered_data,
                                       "sourcing_score", o), p.limit)
                     clean_data == SourcingClean(sorted)
                     records == to_dict_records(clean_data)
                 IN /\ req' = Ok("sourcing", p, [now |-> now],
                                 clean_data_for_json(records), filtered_data)
                    /\ leads_data' = Frame(heap.leads_data)
    /\ pc' = "responded"
    /\ UNCHANGED <<model, log, propensity_model, value_model,
                 backend_calls, caught>>

----------------------------------------------------------------------------
(* GET /api/leads/scoring.  Units: conversion_probability, engagement_score *)
(* and urgency_score in 1e-4, composite_score in 1e-5.                      *)

\* random.uniform(0, 0.3), random.uniform(0, 1), random.uniform(0, 1): one
\* number each per request, here a low and a high draw of each
ScoringDraws ==
    {[conv |-> 0, engagement |-> 1000, urgency |-> 6000],
     [conv |-> 3000, engagement |-> 6000, urgency |-> 1000]}

\* conversion_probability*0.5 + engagement_score*0.3 + urgency_score*0.2
composite_score(conv, eng, urg) ==
    Add(Add(Mul(conv, 5), Mul(eng, 3)), Mul(urg, 2))

\* Faulty variant of ScoringDerive: the random term of
\* conversion_probability is the number drawn from (0, 1)
ScoringDerive_wide(df, d) ==
    [i \in 1..Len(df) |->
        LET conv == Add(Mul(df[i].nr_fit_score, 7), Num(d.engagement)) IN
        WithColumns(df[i],
            [conversion_probability |-> conv,
             engagement_score |-> Num(d.engagement),
             urgency_score |-> Num(d.urgency),
             composite_score |->
                 composite_score(conv, Num(d.engagement), Num(d.urgency))])]
\* the four column assignments of get_lead_scoring_data
ScoringDerive(df, d) ==
    [i \in 1..Len(df) |->
        LET conv == Add(Mul(df[i].nr_fit_score, 7), Num(d.conv)) IN
        WithColumns(df[i],
            [conversion_probability |-> conv,
             engagement_score |-> Num(d.engagement),
             urgency_score |-> Num(d.urgency),
             composite_score |->
                 composite_score(conv, Num(d.engagement), Num(d.urgency))])]

\* the filter chain of get_lead_scoring_data
ScoringFilter(df, p) ==
    LET f1 == FilterIf(Truthy(p.industry), df,
                       "industry", "Eq", p.industry)
        f2 == FilterIf(p.min_conversion_probability # None, f1,
                       "conversion_probability", "Ge",
                       p.min_conversion_probability)
        f3 == FilterIf(p.max_conversion_probability # None, f2,
                       "conversion_probability", "Le",
                       p.max_conversion_probability)
        f4 == FilterIf(p.min_engagement_score # None, f3,
                       "engagement_score", "Ge", p.min_engagement_score)
        f5 == FilterIf(p.max_engagement_score # None, f4,
                       "engagement_score", "Le", p.max_engagement_score)
        f6 == FilterIf(p.min_urgency_score # None, f5,
                       "urgency_score", "Ge", p.min_urgency_score)
        f7 == FilterIf(p.max_urgency_score # None, f6,
                       "urgency_score", "Le", p.max_urgency_score)
        f8 == FilterIf(p.min_composite_score # None, f7,
                       "composite_score", "Ge", p.min_composite_score)
    IN FilterIf(p.max_composite_score # None,
                f8, "composite_score", "Le", p.max_composite_score)

\* the fillna block of get_lead_scoring_data
ScoringClean(df) ==
    [i \in 1..Len(df) |->
        [df[i] EXCEPT !.nr_fit_score = fillna(@, Num(0)),
                      !.nr_tier = fillna(@, Str("Standard")),
                      !.contract_value = fillna(@, Num(0)),
                      !.competitor_tool = where_notna(@),
                      !.conversion_probability = fillna(@, Num(0)),
                      !.engagement_score = fillna(@, Num(0)),
                      !.urgency_score = fillna(@, Num(0)),
                      !.composite_score = fillna(@, Num(0))]]

ScoringFilters ==
    [industry : IndustryParams,
     min_conversion_probability : {None, Num(5000)},
     max_conversion_probability : {None, Num(2000)},
     min_engagement_score : {None, Num(5000)},
     max_engagement_score : {None, Num(2000)},
     min_urgency_score : {None, Num(5000)},
     max_urgency_score : {None, Num(2000)},
     min_composite_score : {None, Num(30000)},
     max_composite_score : {None, Num(10000)}]

\* P is the set of query-parameter records, D the set of random draws the
\* requests are drawn from.
get_lead_scoring_data(P, D) ==
    /\ pc = "idle"
    /\ \E p \in P, d \in D :
        IF leads_data.none
        THEN /\ req' = NotFound("scoring", p)
             /\ leads_data' = leads_data
        ELSE LET ref == df_copy("leads_data")
                 heap == AssignColumns(leads_data.rows, ref,
                             ScoringDerive(leads_data.rows, d))
                 scoring_data == heap[ref]
                 filtered_data == ScoringFilter(scoring_data, p)
             IN \E o \in SortOrders(filtered_data, "composite_score") :
                 LET sorted == head(sort_values(filtered_data,
                                       "composite_score", o), p.limit)
                     clean_data == ScoringClean(sorted)
                     records == to_dict_records(clean_data)
                 IN /\ req' = Ok("scoring", p, d,
                                 clean_data_for_json(records), filtered_data)
                    /\ leads_data' = Frame(heap.leads_data)
    /\ pc' = "responded"
    /\ UNCHANGED <<model, log, propensity_model, value_model,
                 backend_calls, caught>>

----------------------------------------------------------------------------
(* GET /api/leads/contract-value.  Units: estimated_contract_value in      *)
(* cents, upsell_potential and renewal_probability in 1e-2.                *)

\* random.uniform(10000, 50000) in dollars, random.uniform(0, 1),
\* random.uniform(0.6, 0.95): one number each per request
ContractDraws ==
    {[base |-> 10000, upsell |-> 10, renewal |-> 95],
     [base |-> 50000, upsell |-> 90, renewal |-> 60]}

\* Faulty variant of estimated_contract_value: 20% of revenue
estimated_contract_value_fifth(row, base) ==
    Add(Add(Mul(row.revenue, 20), Mul(row.employee_count, 10000)),
        Num(base * 100))
\* revenue*0.02 + employee_count*100 + base
estimated_contract_value(row, base) ==
    Add(Add(Mul(row.revenue, 2), Mul(row.employee_count, 10000)),
        Num(base * 100))

\* Faulty variant of value_tier: left-closed intervals
value_tier_left_closed(v) ==
    IF v.k = "inf" THEN Str("Strategic")
    ELSE IF v.k # "num" \/ v.n < 0 THEN NaN
    ELSE IF v.n < 5000000 THEN Str("Standard")
    ELSE IF v.n < 15000000 THEN Str("Professional")
    ELSE IF v.n < 50000000 THEN Str("Enterprise")
    ELSE Str("Strategic")
\* pd.cut(value, bins=[0, 50000, 150000, 500000, inf], labels=[...]):
\* right-closed intervals; a value in none of them has no tier
value_tier(v) ==
    IF v.k = "inf" THEN Str("Strategic")
    ELSE IF v.k # "num" \/ v.n <= 0 THEN NaN
    ELSE IF v.n <= 5000000 THEN Str("Standard")
    ELSE IF v.n <= 15000000 THEN Str("Professional")
    ELSE IF v.n <= 50000000 THEN Str("Enterprise")
    ELSE Str("Strategic")

\* the four column assignments of get_contract_value_data
ContractDerive(df, d) ==
    [i \in 1..Len(df) |->
        LET ecv == estimated_contract_value(df[i], d.base) IN
        WithColumns(df[i],
            [estimated_contract_value |-> ecv,
             value_tier |-> value_tier(ecv),
             upsell_potential |-> Num(d.upsell),
             renewal_probability |-> Num(d.renewal)])]

\* the filter chain of get_contract_value_data
ContractFilter(df, p) ==
    LET f1 == FilterIf(Truthy(p.industry), df,
                       "industry", "Eq", p.industry)
        f2 == FilterIf(Truthy(p.value_tier), f1,
                       "value_tier", "Eq", p.value_tier)
        f3 == FilterIf(p.min_contract_value # None, f2,
                       "estimated_contract_value", "Ge", p.min_contract_value)
        f4 == FilterIf(p.max_contract_value # None, f3,
                       "estimated_contract_value", "Le", p.max_contract_value)
        f5 == FilterIf(p.min_upsell_potential # None, f4,
                       "upsell_potential", "Ge", p.min_upsell_potential)
        f6 == FilterIf(p.max_upsell_potential # None, f5,
                       "upsell_potential", "Le", p.max_upsell_potential)
        f7 == FilterIf(p.min_renewal_probability # None, f6,
                       "renewal_probability", "Ge", p.min_renewal_probability)
    IN FilterIf(p.max_renewal_probability # None,
                f7, "renewal_probability", "Le", p.max_renewal_probability)

\* the fillna block of get_contract_value_data
ContractClean(df) ==
    [i \in 1..Len(df) |->
        [df[i] EXCEPT !.nr_fit_score = fillna(@, Num(0)),
                      !.nr_tier = fillna(@, Str("Standard")),
                      !.contract_value = fillna(@, Num(0)),
                      !.competitor_tool = where_notna(@),
                      !.estimated_contract_value = fillna(@, Num(0)),
                      !.upsell_potential = fillna(@, Num(0)),
                      !.renewal_probability = fillna(@, Num(0))]]

ContractFilters ==
    [industry : IndustryParams,
     value_tier : {None, Str(""), Str("Enterprise")},
     min_contract_value : {None, Num(10000000)},
     max_contract_value : {None, Num(5000000)},
     min_upsell_potential : {None, Num(50)},
     max_upsell_potential : {None, Num(20)},
     min_renewal_probability : {None, Num(90)},
     max_renewal_probability : {None, Num(70)}]

get_contract_value_data(P, D) ==
    /\ pc = "idle"
    /\ \E p \in P, d \in D :
        IF leads_data.none
        THEN /\ req' = NotFound("contract-value", p)
             /\ leads_data' = leads_data
        ELSE LET ref == df_copy("leads_data")
                 heap == AssignColumns(leads_data.rows, ref,
                             ContractDerive(leads_data.rows, d))
                 contract_data == heap[ref]
                 filtered_data == ContractFilter(contract_data, p)
             IN \E o \in SortOrders(filtered_data,
                                    "estimated_contract_value") :
                 LET sorted == head(sort_values(filtered_data,
                                 "estimated_contract_value", o), p.limit)
                     clean_data == ContractClean(sorted)
                     records == to_dict_records(clean_data)
                 IN /\ req' = Ok("contract-value", p, d,
                                 clean_data_for_json(records), filtered_data)
                    /\ leads_data' = Frame(heap.leads_data)
    /\ pc' = "responded"
    /\ UNCHANGED <<model, log, propensity_model, value_model,
                 backend_calls, caught>>

----------------------------------------------------------------------------
(* generate_executive_summary and the /api/summary endpoints               *)

SummaryUnavailable == "AI summary unavailable - Gemini API key not configured"

\* What the try block of generate_executive_summary can do: build the
\* digest and get a text from generate_content, raise while building the
\* digest or the prompt (the sourcing digest reads the industry column,
\* which the handler before it reads only when the industry parameter is
\* set, so a table without that column raises KeyError here), or raise in
\* generate_content
BackendOutcomes == {"text", "digest raises", "backend raises"}

\* Faulty variant of generate_executive_summary: a failed generate_content
\* call is made a second time
generate_executive_summary_retry(m, outcome) ==
    IF m = "None"
    THEN [summary |-> SummaryUnavailable, calls |-> 0, caught |-> "None"]
    ELSE CASE outcome = "text" ->
                [summary |-> "generated text", calls |-> 1,
                 caught |-> "None"]
           [] outcome = "digest raises" ->
                [summary |-> "Error generating summary: digest failure",
                 calls |-> 0, caught |-> "digest"]
           [] outcome = "backend raises" ->
                [summary |-> "Error generating summary: backend failure",
                 calls |-> 2, caught |-> "backend"]

\* Faulty variant of generate_executive_summary: the backend is called
\* whether or not a handle is configured
generate_executive_summary_unguarded(m, outcome) ==
    IF outcome = "text"
    THEN [summary |-> "generated text", calls |-> 1, caught |-> "None"]
    ELSE [summary |-> "Error generating summary: failure",
          calls |-> 1, caught |-> "backend"]
\* Faulty variant of generate_executive_summary: str(e) is returned without
\* the "Error generating summary: " prefix
generate_executive_summary_bare(m, outcome) ==
    IF m = "None"
    THEN [summary |-> SummaryUnavailable, calls |-> 0, caught |-> "None"]
    ELSE CASE outcome = "text" ->
                [summary |-> "generated text", calls |-> 1,
                 caught |-> "None"]
           [] outcome = "digest raises" ->
                [summary |-> "digest failure", calls |-> 0,
                 caught |-> "digest"]
           [] outcome = "backend raises" ->
                [summary |-> "backend failure", calls |-> 1,
                 caught |-> "backend"]
\* generate_executive_summary: without a backend handle the fixed sentinel,
\* before anything else is done; otherwise the digest, the prompt and one
\* generate_content call, whose text is returned; an exception raised on
\* the way is caught and turned into an error string.  calls counts the
\* generate_content calls made.
generate_executive_summary(m, outcome) ==
    IF m = "None"
    THEN [summary |-> SummaryUnavailable, calls |-> 0, caught |-> "None"]
    ELSE CASE outcome = "text" ->
                [summary |-> "generated text", calls |-> 1,
                 caught |-> "None"]
           [] outcome = "digest raises" ->
                [summary |-> "Error generating summary: digest failure",
                 calls |-> 0, caught |-> "digest"]
           [] outcome = "backend raises" ->
                [summary |-> "Error generating summary: backend failure",
                 calls |-> 1, caught |-> "backend"]

\* the sourcing_score assignment of get_sourcing_summary
SourcingSummaryDerive(df) ==
    [i \in 1..Len(df) |->
        WithColumns(df[i], [sourcing_score |-> sourcing_score(df[i])])]

\* created_at and days_since_created as get_sourcing_summary assigns them:
\* on the rows left by the earlier filters, spaced over that many periods
SummaryDays(df, now) ==
    [i \in 1..Len(df) |->
        WithColumns(df[i],
            [created_at |-> Num(date_range(Len(df), i)),
             days_since_created |->
                 Num(days_since(now, date_range(Len(df), i)))])]

\* if days_since_created_max is not None: date the rows, then filter
DaysFilterIf(cond, df, now, bound) ==
    IF cond
    THEN FilterIf(TRUE, SummaryDays(df, now), "days_since_created", "Le",
                  bound)
    ELSE df

\* the filter chain of get_sourcing_summary
SourcingSummaryFilter(df, p, now) ==
    LET f1 == FilterIf(Truthy(p.industry), df,
                       "industry", "Eq", p.industry)
        f2 == FilterIf(p.min_employee_count # None, f1,
                       "employee_count", "Ge", p.min_employee_count)
        f3 == FilterIf(p.max_employee_count # None, f2,
                       "employee_count", "Le", p.max_employee_count)
        f4 == FilterIf(p.min_sourcing_score # None, f3,
                       "sourcing_score", "Ge", p.min_sourcing_score)
        f5 == FilterIf(p.max_sourcing_score # None, f4,
                       "sourcing_score", "Le", p.max_sourcing_score)
        f6 == DaysFilterIf(p.days_since_created_max # None, f5, now,
                           p.days_since_created_max)
    IN FilterIf(DefaultFloorApplies(p),
                f6, "sourcing_score", "Gt", Num(SourcingFloor))

\* return {"summary": summary, "record_count": len(filtered_data)}
SummaryBody(summary, filtered_data) ==
    [summary |-> Str(summary), record_count |-> Num(Len(filtered_data))]

get_sourcing_summary(P, Clock) ==
    /\ pc = "idle"
    /\ \E p \in P, now \in Clock, outcome \in BackendOutcomes :
        IF leads_data.none
        THEN /\ req' = NotFound("summary/sourcing", p)
             /\ leads_data' = leads_data
             /\ backend_calls' = 0
             /\ caught' = "None"
        ELSE LET ref == df_copy("leads_data")
                 heap == AssignColumns(leads_data.rows, ref,
                             SourcingSummaryDerive(leads_data.rows))
                 sourcing_data == heap[ref]
                 filtered_data == SourcingSummaryFilter(sourcing_data, p, now)
                 gen == generate_executive_summary(model, outcome)
             IN /\ req' = Ok("summary/sourcing", p, [now |-> now],
                             SummaryBody(gen.summary, filtered_data),
                             filtered_data)
                /\ leads_data' = Frame(heap.leads_data)
                /\ backend_calls' = gen.calls
                /\ caught' = gen.caught
    /\ pc' = "responded"
    /\ UNCHANGED <<model, log, propensity_model, value_model>>

\* d[i] for every row: np.random.uniform(lo, hi, len(df)) draws one number
\* per row
Alt(n, a, b) == [i \in 1..n |-> IF i % 2 = 1 THEN a ELSE b]

\* np.random.uniform(0.1, 0.9, n), (0.2, 0.95, n), (0.1, 0.8, n)
ScoringSummaryDraws(n) ==
    {[conv |-> Alt(n, 1000, 9000), engagement |-> Alt(n, 9500, 2000),
      urgency |-> Alt(n, 1000, 8000)],
     [conv |-> Alt(n, 9000, 1000), engagement |-> Alt(n, 2000, 2000),
      urgency |-> Alt(n, 8000, 8000)]}

\* the four column assignments of get_scoring_summary
ScoringSummaryDerive(df, d) ==
    [i \in 1..Len(df) |->
        WithColumns(df[i],
            [conversion_probability |-> Num(d.conv[i]),
             engagement_score |-> Num(d.engagement[i]),
             urgency_score |-> Num(d.urgency[i]),
             composite_score |->
                 composite_score(Num(d.conv[i]), Num(d.engagement[i]),
                                 Num(d.urgency[i]))])]

\* P is the set of query-parameter records the requests are drawn from.
get_scoring_summary(P) ==
    /\ pc = "idle"
    /\ \E p \in P, outcome \in BackendOutcomes :
        IF leads_data.none
        THEN /\ req' = NotFound("summary/scoring", p)
             /\ leads_data' = leads_data
             /\ backend_calls' = 0
             /\ caught' = "None"
        ELSE \E d \in ScoringSummaryDraws(Len(leads_data.rows)) :
             LET ref == df_copy("leads_data")
                 heap == AssignColumns(leads_data.rows, ref,
                             ScoringSummaryDerive(leads_data.rows, d))
                 scoring_data == heap[ref]
                 filtered_data == ScoringFilter(scoring_data, p)
                 gen == generate_executive_summary(model, outcome)
             IN /\ req' = Ok("summary/scoring", p, d,
                             SummaryBody(gen.summary, filtered_data),
                             filtered_data)
                /\ leads_data' = Frame(heap.leads_data)
                /\ backend_calls' = gen.calls
                /\ caught' = gen.caught
    /\ pc' = "responded"
    /\ UNCHANGED <<model, log, propensity_model, value_model>>

\* np.random.uniform(10000, 500000, n), (0, 1, n), (0.6, 0.95, n)
ContractSummaryDraws(n) ==
    {[base |-> Alt(n, 10000, 500000), upsell |-> Alt(n, 10, 90),
      renewal |-> Alt(n, 95, 60)],
     [base |-> Alt(n, 500000, 10000), upsell |-> Alt(n, 90, 90),
      renewal |-> Alt(n, 60, 60)]}

\* the four column assignments of get_contract_value_summary:
\* revenue*0.02 + employee_count*50 + base
ContractSummaryDerive(df, d) ==
    [i \in 1..Len(df) |->
        LET ecv == Add(Add(Mul(df[i].revenue, 2),
                           Mul(df[i].employee_count, 5000)),
                       Num(d.base[i] * 100)) IN
        WithColumns(df[i],
            [estimated_contract_value |-> ecv,
             value_tier |-> value_tier(ecv),
             upsell_potential |-> Num(d.upsell[i]),
             renewal_probability |-> Num(d.renewal[i])])]

get_contract_value_summary(P) ==
    /\ pc = "idle"
    /\ \E p \in P, outcome \in BackendOutcomes :
        IF leads_data.none
        THEN /\ req' = NotFound("summary/contract-value", p)
             /\ leads_data' = leads_data
             /\ backend_calls' = 0
             /\ caught' = "None"
        ELSE \E d \in ContractSummaryDraws(Len(leads_data.rows)) :
             LET ref == df_copy("leads_data")
                 heap == AssignColumns(leads_data.rows, ref,
                             ContractSummaryDerive(leads_data.rows, d))
                 contract_data == heap[ref]
                 filtered_data == ContractFilter(contract_data, p)
                 gen == generate_executive_summary(model, outcome)
             IN /\ req' = Ok("summary/contract-value", p, d,
                             SummaryBody(gen.summary, filtered_data),
                             filtered_data)
                /\ leads_data' = Frame(heap.leads_data)
                /\ backend_calls' = gen.calls
                /\ caught' = gen.caught
    /\ pc' = "responded"
    /\ UNCHANGED <<model, log, propensity_model, value_model>>

----------------------------------------------------------------------------
(* GET /api/leads/stats.  Rates are in 1e-4.                               *)

\* random.uniform(0.15, 0.25), (50000, 200000), (0.6, 0.9)
StatsDraws ==
    {[conversion_rate |-> 1500, avg_deal_size |-> 50000,
      lead_quality_score |-> 9000],
     [conversion_rate |-> 2500, avg_deal_size |-> 200000,
      lead_quality_score |-> 6000]}

\* the fillna block of get_lead_stats
StatsClean(df) ==
    [i \in 1..Len(df) |->
        [df[i] EXCEPT !.employee_count = fillna(@, Num(0)),
                      !.revenue = fillna(@, Num(0)),
                      !.contract_value = fillna(@, Num(0))]]

\* clean_data_for_json(stats)
StatsBody(clean_data, d) ==
    [total_leads |-> Num(Len(clean_data)),
     industries |-> value_counts(clean_data, "industry"),
     avg_employee_count |->
         clean_value(ColMean(clean_data, "employee_count", 1)),
     avg_revenue |-> clean_value(ColMean(clean_data, "revenue", 1)),
     conversion_rate |-> Num(d.conversion_rate),
     avg_deal_size |-> Num(d.avg_deal_size),
     total_pipeline_value |->
         clean_value(ColSum(clean_data, "contract_value")),
     lead_quality_score |-> Num(d.lead_quality_score)]

get_lead_stats ==
    /\ pc = "idle"
    /\ \E d \in StatsDraws :
        IF leads_data.none
        THEN /\ req' = NotFound("leads/stats", NoParams)
             /\ leads_data' = leads_data
        ELSE LET ref == df_copy("leads_data")
                 heap == AssignColumns(leads_data.rows, ref,
                             StatsClean(leads_data.rows))
                 clean_data == heap[ref]
             IN /\ req' = Ok("leads/stats", NoParams, d,
                             StatsBody(clean_data, d), clean_data)
                /\ leads_data' = Frame(heap.leads_data)
    /\ pc' = "responded"
    /\ UNCHANGED <<model, log, propensity_model, value_model,
                 backend_calls, caught>>

----------------------------------------------------------------------------
(* The /api/summary endpoints that take industry and company_size          *)

OverviewFilters ==
    [industry : IndustryParams,
     company_size : {None, Str(""), Str("startup"), Str("small"),
                     Str("medium"), Str("large"), Str("huge")}]

\* Faulty variant of Between: the lower bound is included
Between_left_closed(df, lo, hi) ==
    [i \in 1..Len(df) |-> Ge(df[i].employee_count, Num(lo))
                          /\ Le(df[i].employee_count, Num(hi))]
\* employee_count > lo  &  employee_count <= hi
Between(df, lo, hi) ==
    [i \in 1..Len(df) |-> Gt(df[i].employee_count, Num(lo))
                          /\ Le(df[i].employee_count, Num(hi))]

\* the if company_size: block these endpoints share
CompanySizeFilter(df, company_size) ==
    IF ~Truthy(company_size) THEN df
    ELSE IF company_size = Str("startup")
         THEN Where(df, Mask(df, "employee_count", "Le", Num(50)))
    ELSE IF company_size = Str("small") THEN Where(df, Between(df, 50, 200))
    ELSE IF company_size = Str("medium")
         THEN Where(df, Between(df, 200, 1000))
    ELSE IF company_size = Str("large")
         THEN Where(df, Mask(df, "employee_count", "Gt", Num(1000)))
    ELSE df

\* the industry and company_size filters these endpoints share
OverviewFilter(df, p) ==
    CompanySizeFilter(FilterIf(Truthy(p.industry), df, "industry", "Eq",
                               p.industry), p.company_size)

\* (filtered_data['converted'] == True).sum() / total_leads, or 0
conversion_rate(df) ==
    IF Len(df) > 0
    THEN Num((CountWhere(df, Mask(df, "converted", "Eq", Bool(TRUE)))
              * 10000) \div Len(df))
    ELSE Num(0)

\* the size_dist dictionary of get_gtm_overview_summary
size_dist(df) ==
    [startup |-> Num(CountWhere(df,
                       Mask(df, "employee_count", "Le", Num(50)))),
     small |-> Num(CountWhere(df, Between(df, 50, 200))),
     medium |-> Num(CountWhere(df, Between(df, 200, 1000))),
     large |-> Num(CountWhere(df,
                     Mask(df, "employee_count", "Gt", Num(1000))))]

\* convert_numpy_types(overview_data): conversion_probability is no column
\* of the table, so its average is the literal 0
GtmMetrics(df) ==
    [total_leads |-> Num(Len(df)),
     conversion_rate |-> convert_numpy_float(conversion_rate(df)),
     avg_conversion_probability |-> Num(0),
     avg_contract_value |->
         convert_numpy_float(ColMean(df, "contract_value", 1)),
     total_pipeline_value |->
         convert_numpy_float(ColSum(df, "contract_value")),
     high_value_leads |->
         Num(CountWhere(df, Mask(df, "contract_value", "Gt", Num(100000)))),
     high_quality_leads |->
         Num(CountWhere(df, Mask(df, "nr_fit_score", "Gt", Num(700)))),
     avg_fit_score |-> convert_numpy_float(ColMean(df, "nr_fit_score", 1)),
     industry_distribution |-> value_counts(df, "industry"),
     company_size_distribution |-> size_dist(df),
     competitor_distribution |-> value_counts(df, "competitor_tool"),
     avg_engagement |-> convert_numpy_float(ColMean(df, "pages_visited", 1)),
     high_engagement_leads |->
         Num(CountWhere(df, Mask(df, "pages_visited", "Gt", Num(20))))]

GtmBody(summary, df) ==
    [summary |-> Str(summary), record_count |-> Num(Len(df)),
     overview_metrics |-> GtmMetrics(df)]

\* convert_numpy_types(pipeline_data)
PipelineBody(summary, df) ==
    [summary |-> Str(summary), record_count |-> Num(Len(df)),
     pipeline_metrics |->
        [total_leads |-> Num(Len(df)),
         conversion_rate |-> convert_numpy_float(conversion_rate(df)),
         avg_conversion_probability |-> Num(0),
         total_pipeline_value |->
             convert_numpy_float(ColSum(df, "contract_value"))]]

\* industry_data is returned as it was computed
IndustryBody(summary, df) ==
    [summary |-> Str(summary), record_count |-> Num(Len(df)),
     industry_metrics |->
        [industry_distribution |-> value_counts(df, "industry"),
         industry_conversion_rates |->
             GroupMean(df, "industry", "converted", 10000),
         industry_avg_contract_values |->
             GroupMean(df, "industry", "contract_value", 1)]]

\* competitor_tool.isin(['Datadog', 'Splunk', 'Dynatrace'])
Switching(df) ==
    [i \in 1..Len(df) |->
        df[i].competitor_tool \in {Str("Datadog"), Str("Splunk"),
                                   Str("Dynatrace")}]

\* competitive_data is returned as it was computed
CompetitiveBody(summary, df) ==
    [summary |-> Str(summary), record_count |-> Num(Len(df)),
     competitive_metrics |->
        [competitor_distribution |-> value_counts(df, "competitor_tool"),
         competitor_conversion_rates |->
             GroupMean(df, "competitor_tool", "converted", 10000),
         switching_opportunities |-> Num(CountWhere(df, Switching(df)))]]

\* the value each of these handlers returns
OverviewBody(endpoint, summary, df) ==
    CASE endpoint = "summary/gtm-overview" -> GtmBody(summary, df)
      [] endpoint = "summary/pipeline-health" -> PipelineBody(summary, df)
      [] endpoint = "summary/industry-analysis" -> IndustryBody(summary, df)
      [] endpoint = "summary/competitive-landscape" ->
            CompetitiveBody(summary, df)
      [] OTHER -> SummaryBody(summary, df)

\* The shape these handlers share: 404 without a table, else filter a copy
\* of it, compute the metrics, ask for the summary and return
OverviewRequest(endpoint, P) ==
    /\ pc = "idle"
    /\ \E p \in P, outcome \in BackendOutcomes :
        IF leads_data.none
        THEN /\ req' = NotFound(endpoint, p)
             /\ backend_calls' = 0
             /\ caught' = "None"
        ELSE LET filtered_data == OverviewFilter(leads_data.rows, p)
                 gen == generate_executive_summary(model, outcome)
             IN /\ req' = Ok(endpoint, p, NoDraws,
                             OverviewBody(endpoint, gen.summary,
                                          filtered_data),
                             filtered_data)
                /\ backend_calls' = gen.calls
                /\ caught' = gen.caught
    /\ pc' = "responded"
    /\ UNCHANGED <<model, log, propensity_model, value_model, leads_data>>

get_gtm_overview_summary(P) == OverviewRequest("summary/gtm-overview", P)

get_pipeline_health_summary(P) ==
    OverviewRequest("summary/pipeline-health", P)

get_industry_analysis_summary(P) ==
    OverviewRequest("summary/industry-analysis", P)

get_competitive_landscape_summary(P) ==
    OverviewRequest("summary/competitive-landscape", P)

get_product_tier_summary(P) == OverviewRequest("summary/product-tiers", P)

get_lead_source_summary(P) == OverviewRequest("summary/lead-sources", P)

get_observability_adoption_summary(P) ==
    OverviewRequest("summary/observability-adoption", P)

----------------------------------------------------------------------------
(* POST /api/predict.  Units: the three scores in 1e-4, contract_value in  *)
(* dollars.                                                                *)

\* request.leads: of a LeadData only company_name is read
LeadNames == {"Acme", "Bolt"}
Lead(name) == [company_name |-> Str(name)]

\* random.uniform(0.1, 0.9), random.uniform(10000, 500000),
\* random.uniform(0.1, 0.9), random.uniform(0.7, 0.95): four numbers per
\* lead, here the two ends of every range and a priority at the 0.7 mark
PredictDraws ==
    {[propensity |-> 1000, contract_value |-> 10000, priority |-> 1000,
      confidence |-> 7000],
     [propensity |-> 9000, contract_value |-> 500000, priority |-> 9000,
      confidence |-> 9500],
     [propensity |-> 5000, contract_value |-> 250000, priority |-> 7000,
      confidence |-> 8000]}

\* The requests: up to MaxLeads leads, and the numbers drawn for each
PredictRequests ==
    UNION { [leads : [1..n -> {Lead(name) : name \in LeadNames}],
             draws : [1..n -> PredictDraws]] : n \in 0..MaxLeads }

\* Faulty variant of mock_predictions: the predictions in reverse order
mock_predictions_reversed(leads, draws) ==
    [i \in 1..Len(leads) |->
        LET j == Len(leads) + 1 - i IN
        [company_name |-> leads[j].company_name,
         propensity_score |-> Num(draws[j].propensity),
         contract_value |-> Num(draws[j].contract_value),
         priority_score |-> Num(draws[j].priority),
         confidence |-> Num(draws[j].confidence)]]
\* for lead in request.leads: predictions.append(pred)
mock_predictions(leads, draws) ==
    [i \in 1..Len(leads) |->
        [company_name |-> leads[i].company_name,
         propensity_score |-> Num(draws[i].propensity),
         contract_value |-> Num(draws[i].contract_value),
         priority_score |-> Num(draws[i].priority),
         confidence |-> Num(draws[i].confidence)]]

\* sum(p[field] for p in predictions)
SumField(predictions, field) == SumCells(predictions, field)

\* the summary dictionary; the average divides by len(predictions), so it
\* is only defined for a non-empty list
prediction_summary(predictions) ==
    [total_leads |-> Num(Len(predictions)),
     avg_propensity |->
         Num(SumField(predictions, "propensity_score").n
               \div Len(predictions)),
     total_potential_value |-> SumField(predictions, "contract_value"),
     high_priority_count |->
         Num(Cardinality({i \in 1..Len(predictions) :
                 predictions[i].priority_score.n > 7000}))]

\* an exception no handler catches: the request fails with HTTP 500
ServerError(endpoint, p, d, error) ==
    [endpoint |-> endpoint, params |-> p, draws |-> d, status |-> 500,
     detail |-> error, body |-> <<>>, filtered |-> <<>>]

\* predict_leads: the branch without models and the branch with models
\* build the same mock predictions; len(predictions) = 0 makes the average
\* raise ZeroDivisionError
predict_leads(R) ==
    /\ pc = "idle"
    /\ \E r \in R :
        LET branch == IF propensity_model = "None" \/ value_model = "None"
                      THEN "models not available"
                      ELSE "models loaded"
            p == [leads |-> r.leads]
            d == [rolls |-> r.draws, branch |-> branch]
            predictions == mock_predictions(r.leads, r.draws)
        IN IF Len(predictions) = 0
           THEN req' = ServerError("predict", p, d, "ZeroDivisionError")
           ELSE req' = Ok("predict", p, d,
                          [predictions |-> predictions,
                           summary |-> prediction_summary(predictions)],
                          <<>>)
    /\ pc' = "responded"
    /\ UNCHANGED <<model, log, propensity_model, value_model, leads_data,
                   backend_calls, caught>>

----------------------------------------------------------------------------
(* POST /api/outreach/generate.  personalization_score is in 1e-2.  Texts  *)
(* built with f-strings are modelled by the values substituted into them.  *)

\* OutreachRequest: the fields the handler reads
OutreachRequests ==
    [company_name : {"Acme"},
     contact_name : {"Kim"},
     job_title : {"CTO", "Director of Engineering"},
     industry : {"Technology", "Retail"},
     tech_stack : {<<>>, <<"AWS">>, <<"Rust", "AWS", "Python">>,
                   <<"Java", "React", "Docker", "GCP">>},
     hiring_signals : {<<>>, <<"Backend">>, <<"DevOps", "Backend", "Data">>}]

\* What the try block of generate_outreach meets once it calls the backend:
\* an exception, a text that is not JSON, JSON that is not an object, an
\* object without the expected keys, an object with them
OutreachOutcomes ==
    {"raises", "not json", "not an object", "empty object", "object"}

\* the keys of industry_insights
IndustryInsights ==
    {"Technology", "Financial Services", "Healthcare", "E-commerce",
     "Manufacturing"}

\* the keys of tech_benefits
TechBenefits ==
    {"AWS", "Azure", "GCP", "Kubernetes", "Docker", "Python", "Java",
     "Node.js", "React", "Datadog", "Splunk", "Dynatrace", "AppDynamics"}

TemplateFollowUp ==
  "Follow up in 3-5 business days with a relevant case study from your industry"

DefaultFollowUp ==
    "Follow up in 3-5 business days with additional value proposition"

\* seq[:n]
Prefix(seq, n) == SubSeq(seq, 1, IF n < Len(seq) THEN n ELSE Len(seq))

InSeq(x, seq) == \E i \in 1..Len(seq) : seq[i] = x

\* "Director" in job_title or "Head" in job_title, on the titles used here
LeaderTitle(job_title) == job_title \in {"Director of Engineering"}

hiring_context(request) ==
    IF InSeq("DevOps", request.hiring_signals)
         \/ InSeq("Site Reliability", request.hiring_signals)
    THEN "As you're building out your DevOps and SRE capabilities,"
    ELSE IF LeaderTitle(request.job_title)
         THEN "As a leader scaling your engineering organization,"
         ELSE "As you're growing your engineering team,"

\* the technologies of tech_stack[:3] whose benefit is listed, or the
\* generic benefit
tech_benefits_str(request) ==
    LET IsListed(tech) == tech \in TechBenefits
        relevant == SelectSeq(Prefix(request.tech_stack, 3), IsListed)
    IN IF relevant # <<>> THEN relevant
       ELSE <<"modern observability and monitoring">>

\* min(score, 0.95)
cap_score(score) == IF score < 95 THEN score ELSE 95

\* Faulty variant of template_score: the score is not capped
template_score_uncapped(request) ==
    70 + (IF Len(request.tech_stack) > 2 THEN 10 ELSE 0)
       + (IF Len(request.hiring_signals) > 1 THEN 10 ELSE 0)
       + (IF request.industry \in IndustryInsights THEN 10 ELSE 0)
\* the personalization score of the template
template_score(request) ==
    cap_score(70 + (IF Len(request.tech_stack) > 2 THEN 10 ELSE 0)
                 + (IF Len(request.hiring_signals) > 1 THEN 10 ELSE 0)
                 + (IF request.industry \in IndustryInsights
                    THEN 10 ELSE 0))

key_signals_used(request) ==
    [hiring_signals |-> request.hiring_signals,
     tech_stack |-> request.tech_stack,
     industry |-> request.industry,
     job_title |-> request.job_title]

\* generate_enhanced_template_outreach: nothing but the request is read
generate_enhanced_template_outreach(request) ==
    [outreach_text |->
        [company_name |-> request.company_name,
         industry |-> request.industry,
         contact_name |-> request.contact_name,
         hiring_context |-> hiring_context(request),
         tech_stack |-> Prefix(request.tech_stack, 3),
         hiring_signals |-> Prefix(request.hiring_signals, 2),
         industry_info |-> IF request.industry \in IndustryInsights
                           THEN request.industry ELSE "Technology",
         tech_benefits |-> tech_benefits_str(request)],
     personalization_score |-> template_score(request),
     suggested_follow_up |-> TemplateFollowUp,
     personalization_insights |->
        [industry |-> request.industry,
         technologies |-> Len(request.tech_stack),
         hiring_signals |-> Len(request.hiring_signals)],
     key_signals_used |-> key_signals_used(request)]

\* the personalization score of the generated outreach
ai_score(request) ==
    cap_score(60 + (IF Len(request.tech_stack) > 2 THEN 10 ELSE 0)
                 + (IF Len(request.hiring_signals) > 1 THEN 10 ELSE 0)
                 + (IF request.industry \in {"Technology",
                                             "Financial Services",
                                             "Healthcare"}
                    THEN 10 ELSE 0)
                 + (IF \E tech \in {"AWS", "Azure", "GCP", "Kubernetes",
                                    "Docker"} :
                          InSeq(tech, request.tech_stack)
                    THEN 10 ELSE 0))

\* the dictionary built from ai_response, whose missing keys get defaults
ai_outreach(request, outcome) ==
    [outreach_text |->
        IF outcome = "object"
        THEN [subject |-> "generated subject", email_body |-> "generated body"]
        ELSE [subject |-> "", email_body |-> ""],
     personalization_score |-> ai_score(request),
     suggested_follow_up |->
        IF outcome = "object" THEN "generated follow up"
        ELSE DefaultFollowUp,
     personalization_insights |->
        IF outcome = "object" THEN "generated insights" ELSE "",
     key_signals_used |-> key_signals_used(request)]

\* generate_outreach.  available: GEMINI_API_KEY is set and the genai
\* module was imported (both hold when the module-level handle was
\* configured).  The handle the handler creates is a local of its own.
generate_outreach(R) ==
    /\ pc = "idle"
    /\ \E request \in R, outcome \in OutreachOutcomes,
          available \in IF model = "configured" THEN {TRUE} ELSE BOOLEAN :
        LET called == available
            fallback == ~available
                        \/ outcome \in {"raises", "not json", "not an object"}
            d == [available |-> available,
                  outcome |-> IF called THEN outcome ELSE "not called"]
        IN /\ req' = Ok("outreach/generate", request, d,
                        IF fallback
                        THEN generate_enhanced_template_outreach(request)
                        ELSE ai_outreach(request, outcome),
                        <<>>)
           /\ backend_calls' = IF called THEN 1 ELSE 0
    /\ pc' = "responded"
    /\ UNCHANGED <<model, log, propensity_model, value_model, leads_data,
                   caught>>
----------------------------------------------------------------------------
(* GET / and GET /health                                                   *)

\* datetime.now().isoformat(): a string that spells the clock reading
isoformat(now) == [k |-> "str", n |-> now, s |-> "isoformat"]

\* root: reads no global
root ==
    /\ pc = "idle"
    /\ req' = Ok("/", NoParams, NoDraws,
                 [message |-> "Lead Assessment POC API",
                  status |-> "running"], <<>>)
    /\ pc' = "responded"
    /\ UNCHANGED <<model, log, propensity_model, value_model, leads_data,
                   backend_calls, caught>>

\* health_check: reads the clock and no global
health_check(Clock) ==
    /\ pc = "idle"
    /\ \E now \in Clock :
          req' = Ok("/health", NoParams, [now |-> now],
                    [status |-> "healthy", timestamp |-> isoformat(now)],
                    <<>>)
    /\ pc' = "responded"
    /\ UNCHANGED <<model, log, propensity_model, value_model, leads_data,
                   backend_calls, caught>>
----------------------------------------------------------------------------
(* src/data_generator.py: the fit scores of the sample data.  The score of *)
(* calculate_realistic_nr_fit_score is in 1/100 of a point.                *)

MaxStack == 3

\* one technology of every group either function tells apart
Techs == {"AWS", "Docker", "Datadog", "OpenTelemetry", "Python"}

\* the tech_stack argument: a list of technologies
TechStacks == UNION { [1..n -> Techs] : n \in 0..MaxStack }

\* Python's max and min of two numbers
max(a, b) == IF b > a THEN b ELSE a
min(a, b) == IF b < a THEN b ELSE a

\* INDUSTRY_ADOPTION_RATES.get(industry, 0.5), in 1/100
INDUSTRY_ADOPTION_RATES(industry) ==
    CASE industry = "Technology" -> 85
      [] industry = "Financial Services" -> 75
      [] industry = "Healthcare" -> 65
      [] industry = "E-commerce" -> 80
      [] industry = "SaaS" -> 90
      [] industry = "Gaming" -> 70
      [] industry = "Media & Entertainment" -> 75
      [] industry = "Education Technology" -> 60
      [] industry = "Fintech" -> 85
      [] industry = "Edtech" -> 70
      [] industry = "Healthtech" -> 75
      [] industry = "Retail Technology" -> 70
      [] OTHER -> 50

\* score as calculate_nr_fit_score has accumulated it before it returns
nr_fit_points(tech_stack, employee_count, revenue) ==
    LET cloud_tech == {"AWS", "Azure", "GCP", "Docker", "Kubernetes",
                       "Microservices", "Serverless"}
        monitoring_tech == {"Datadog", "Splunk", "Dynatrace", "AppDynamics",
                            "Prometheus", "Grafana"}
        modern_tech == {"OpenTelemetry", "Jaeger", "Zipkin", "CI/CD",
                        "Infrastructure as Code"}
        score[i \in 0..Len(tech_stack)] ==
            IF i = 0 THEN 50
            ELSE IF tech_stack[i] \in cloud_tech THEN score[i - 1] + 10
            ELSE IF tech_stack[i] \in monitoring_tech THEN score[i - 1] + 15
            ELSE IF tech_stack[i] \in modern_tech THEN score[i - 1] + 8
            ELSE score[i - 1]
        size == IF employee_count > 1000 THEN 15
                ELSE IF employee_count > 500 THEN 10
                ELSE IF employee_count > 100 THEN 5
                ELSE 0
        budget == IF revenue > 100000000 THEN 10
                  ELSE IF revenue > 10000000 THEN 5
                  ELSE 0
    IN score[Len(tech_stack)] + size + budget

\* return min(100, max(0, score))
calculate_nr_fit_score(tech_stack, employee_count, revenue) ==
    min(100, max(0, nr_fit_points(tech_stack, employee_count, revenue)))

\* score as calculate_realistic_nr_fit_score has accumulated it before it
\* returns, in 1/100
realistic_nr_fit_points(tech_stack, employee_count, revenue, industry, competitor_tool) ==
    LET cloud_tech == {"AWS", "Azure", "GCP"}
        container_tech == {"Docker", "Kubernetes"}
        modern_tech == {"Microservices", "Serverless", "Cloud Native",
                        "OpenTelemetry"}
        languages == {"Python", "Java", "Node.js", "React", "Angular"}
        score[i \in 0..Len(tech_stack)] ==
            IF i = 0 THEN 4000
            ELSE IF tech_stack[i] \in cloud_tech THEN score[i - 1] + 600
            ELSE IF tech_stack[i] \in container_tech THEN score[i - 1] + 800
            ELSE IF tech_stack[i] \in modern_tech THEN score[i - 1] + 700
            ELSE IF tech_stack[i] \in languages THEN score[i - 1] + 300
            ELSE score[i - 1] + 100
        size == IF employee_count > 5000 THEN 2000
                ELSE IF employee_count > 1000 THEN 1500
                ELSE IF employee_count > 500 THEN 1000
                ELSE IF employee_count > 100 THEN 500
                ELSE 0
        industry_score == INDUSTRY_ADOPTION_RATES(industry) * 15
        switching == IF competitor_tool \in {"Datadog", "Splunk"} THEN 800
                     ELSE IF competitor_tool \in {"Dynatrace", "AppDynamics"}
                          THEN 500
                     ELSE IF competitor_tool = "Custom Solutions" THEN 1000
                     ELSE 0
        budget == IF revenue > 100000000 THEN 1200
                  ELSE IF revenue > 50000000 THEN 800
                  ELSE IF revenue > 10000000 THEN 500
                  ELSE 0
    IN score[Len(tech_stack)] + size + industry_score + switching + budget

\* Faulty variant of calculate_realistic_nr_fit_score: the score is
\* returned as accumulated
calculate_realistic_nr_fit_score_unclamped(tech_stack, employee_count, revenue, industry, competitor_tool) ==
    realistic_nr_fit_points(tech_stack, employee_count, revenue, industry,
                            competitor_tool)
\* return min(max(score, 0), 100)
calculate_realistic_nr_fit_score(tech_stack, employee_count, revenue, industry, competitor_tool) ==
    min(max(realistic_nr_fit_points(tech_stack, employee_count, revenue,
                                    industry, competitor_tool), 0), 10000)

\* The arguments a call is made with: employee counts and revenues on
\* either side of every threshold, an industry with the highest rate, one
\* with the lowest and one the table does not list, and a competitor tool
\* of every branch
GeneratorInputs ==
    [tech_stack : TechStacks,
     employee_count : {50, 101, 501, 1001, 5001},
     revenue : {1000000, 10000001, 50000001, 100000001},
     industry : {"SaaS", "Education Technology", "Agriculture"},
     competitor_tool : {"Datadog", "Dynatrace", "Custom Solutions",
                        "Prometheus"}]

\* A call of one of the two functions is about to be made with arguments a
GeneratorCall(a) ==
    [endpoint |-> "data_generator", params |-> a, draws |-> NoDraws,
     status |-> 0, detail |-> "", body |-> <<>>, filtered |-> <<>>]

\* The data generator is a program of its own: no API process state
InitGenerator ==
    /\ pc = "generator"
    /\ model = "None"
    /\ propensity_model = "None"
    /\ value_model = "None"
    /\ leads_data = NoFrame
    /\ log = <<>>
    /\ req \in {GeneratorCall(a) : a \in GeneratorInputs}
    /\ backend_calls = 0
    /\ caught = "None"

\* calculate_nr_fit_score(tech_stack, employee_count, revenue) returns
CallFitScore ==
    /\ pc = "generator"
    /\ req' = [req EXCEPT
                 !.endpoint = "calculate_nr_fit_score",
                 !.body = [score |->
                     calculate_nr_fit_score(req.params.tech_stack,
                         req.params.employee_count, req.params.revenue),
                           points |->
                     nr_fit_points(req.params.tech_stack,
                         req.params.employee_count, req.params.revenue)]]
    /\ pc' = "returned"
    /\ UNCHANGED <<model, log, propensity_model, value_model, leads_data,
                   backend_calls, caught>>

\* calculate_realistic_nr_fit_score(tech_stack, employee_count, revenue,
\* industry, competitor_tool) returns
CallRealisticFitScore ==
    /\ pc = "generator"
    /\ req' = [req EXCEPT
                 !.endpoint = "calculate_realistic_nr_fit_score",
                 !.body = [score |->
                     calculate_realistic_nr_fit_score(req.params.tech_stack,
                         req.params.employee_count, req.params.revenue,
                         req.params.industry, req.params.competitor_tool),
                           points |->
                     realistic_nr_fit_points(req.params.tech_stack,
                         req.params.employee_count, req.params.revenue,
                         req.params.industry, req.params.competitor_tool)]]
    /\ pc' = "returned"
    /\ UNCHANGED <<model, log, propensity_model, value_model, leads_data,
                   backend_calls, caught>>

----------------------------------------------------------------------------
(* Handlers in flight at the same time.  While pc = "serving", req maps    *)
(* each handler in flight to its request, its position (at) and its locals *)

Handlers == {1, 2}

\* The query parameters of the requests in flight
ConcurrentScoring == WithLimit(AtMost(0, ScoringFilters), {10})
ConcurrentSummaries == AtMost(0, SourcingFilters)
ConcurrentOutreach ==
    {r \in OutreachRequests :
        /\ r.job_title = "CTO"
        /\ r.industry = "Technology"
        /\ r.tech_stack = <<"Rust", "AWS", "Python">>
        /\ r.hiring_signals = <<"Backend">>}

\* The requests a handler can be started with, each with the random numbers
\* it will draw, the clock reading it will get and what the backend will do
PendingRequests ==
    {[endpoint |-> "scoring", params |-> p, draws |-> d] :
        p \in ConcurrentScoring, d \in ScoringDraws}
    \cup {[endpoint |-> "summary/sourcing", params |-> p,
           draws |-> [now |-> 16812, outcome |-> oc]] :
        p \in ConcurrentSummaries, oc \in {"text", "backend raises"}}
    \cup {[endpoint |-> "outreach/generate", params |-> r,
           draws |-> [available |-> a, outcome |-> oc]] :
        r \in ConcurrentOutreach, a \in BOOLEAN, oc \in {"object"}}

\* a handler that has been called and has not run yet
Accepted(r) ==
    [endpoint |-> r.endpoint, params |-> r.params, draws |-> r.draws,
     at |-> "accepted", ref |-> "none", frame |-> <<>>, status |-> 0,
     detail |-> "", body |-> <<>>, overlapped |-> FALSE]

\* the handler r returns: its locals are dropped.  overlapped records that
\* another handler was between two of its steps at that moment
Returned(r, status, detail, body, overlapped) ==
    [r EXCEPT !.at = "responded", !.ref = "none", !.frame = <<>>,
              !.status = status, !.detail = detail, !.body = body,
              !.overlapped = overlapped]

\* another handler than h is between two of its steps
Overlaps(h) == \E g \in Handlers \ {h} : req[g].at = "derived"

\* the event loop starts one handler per request received
accept_requests ==
    /\ pc = "idle"
    /\ \E rs \in [Handlers -> PendingRequests] :
        /\ \A h \in Handlers :
              (rs[h].endpoint = "outreach/generate" /\ model = "configured")
                  => rs[h].draws.available
        /\ req' = [h \in Handlers |-> Accepted(rs[h])]
    /\ pc' = "serving"
    /\ UNCHANGED <<model, log, propensity_model, value_model, leads_data,
                   backend_calls, caught>>

\* what get_lead_scoring_data returns from its derived frame, sorted in
\* the order o
scoring_body(scoring_data, p, o) ==
    clean_data_for_json(to_dict_records(ScoringClean(
        head(sort_values(ScoringFilter(scoring_data, p),
                         "composite_score", o), p.limit))))

\* what generate_outreach returns
outreach_body(request, d) ==
    IF ~d.available \/ d.outcome \in {"raises", "not json", "not an object"}
    THEN generate_enhanced_template_outreach(request)
    ELSE ai_outreach(request, d.outcome)

\* the frame a handler reaches through its local variable
LocalFrame(r) == IF r.ref = "leads_data" THEN leads_data.rows ELSE r.frame

\* get_lead_scoring_data up to the column assignments: the guard, the copy
\* and the four derived columns
scoring_derive ==
    /\ pc = "serving"
    /\ \E h \in Handlers :
        /\ req[h].endpoint = "scoring"
        /\ req[h].at = "accepted"
        /\ IF leads_data.none
           THEN /\ req' = [req EXCEPT ![h] =
                             Returned(@, 404, "No leads data available",
                                      <<>>, Overlaps(h))]
                /\ leads_data' = leads_data
           ELSE LET ref == df_copy("leads_data")
                    heap == AssignColumns(leads_data.rows, ref,
                                ScoringDerive(leads_data.rows, req[h].draws))
                IN /\ req' = [req EXCEPT ![h].at = "derived",
                                         ![h].ref = ref,
                                         ![h].frame = heap.private]
                   /\ leads_data' = Frame(heap.leads_data)
    /\ UNCHANGED <<pc, model, log, propensity_model, value_model,
                   backend_calls, caught>>

\* the rest of get_lead_scoring_data: filter, sort, clean and return
scoring_respond ==
    /\ pc = "serving"
    /\ \E h \in Handlers :
        /\ req[h].endpoint = "scoring"
        /\ req[h].at = "derived"
        /\ LET scoring_data == LocalFrame(req[h])
               filtered_data == ScoringFilter(scoring_data, req[h].params)
           IN \E o \in SortOrders(filtered_data, "composite_score") :
               req' = [req EXCEPT ![h] =
                         Returned(@, 200, "",
                                  scoring_body(scoring_data, req[h].params, o),
                                  Overlaps(h))]
    /\ UNCHANGED <<pc, model, log, propensity_model, value_model, leads_data,
                   backend_calls, caught>>

\* get_sourcing_summary up to the column assignment: the guard, the copy
\* and sourcing_score
summary_derive ==
    /\ pc = "serving"
    /\ \E h \in Handlers :
        /\ req[h].endpoint = "summary/sourcing"
        /\ req[h].at = "accepted"
        /\ IF leads_data.none
           THEN /\ req' = [req EXCEPT ![h] =
                             Returned(@, 404, "No leads data available",
                                      <<>>, Overlaps(h))]
                /\ leads_data' = leads_data
           ELSE LET ref == df_copy("leads_data")
                    heap == AssignColumns(leads_data.rows, ref,
                                SourcingSummaryDerive(leads_data.rows))
                IN /\ req' = [req EXCEPT ![h].at = "derived",
                                         ![h].ref = ref,
                                         ![h].frame = heap.private]
                   /\ leads_data' = Frame(heap.leads_data)
    /\ UNCHANGED <<pc, model, log, propensity_model, value_model,
                   backend_calls, caught>>

\* the rest of get_sourcing_summary: filter, read the module-level backend
\* handle, ask for the summary and return
summary_respond ==
    /\ pc = "serving"
    /\ \E h \in Handlers :
        /\ req[h].endpoint = "summary/sourcing"
        /\ req[h].at = "derived"
        /\ LET filtered_data ==
                   SourcingSummaryFilter(LocalFrame(req[h]), req[h].params,
                                         req[h].draws.now)
               gen == generate_executive_summary(model,
                                                 req[h].draws.outcome)
           IN req' = [req EXCEPT ![h] =
                        Returned(@, 200, "",
                                 SummaryBody(gen.summary, filtered_data),
                                 Overlaps(h))]
    /\ UNCHANGED <<pc, model, log, propensity_model, value_model, leads_data,
                   backend_calls, caught>>

\* generate_outreach: the backend handle it creates is a local variable of
\* the handler, the module-level one is not assigned
outreach_respond ==
    /\ pc = "serving"
    /\ \E h \in Handlers :
        /\ req[h].endpoint = "outreach/generate"
        /\ req[h].at = "accepted"
        /\ req' = [req EXCEPT ![h] =
                     Returned(@, 200, "",
                              outreach_body(req[h].params, req[h].draws),
                              Overlaps(h))]
    /\ UNCHANGED <<pc, model, log, propensity_model, value_model, leads_data,
                   backend_calls, caught>>

\* every handler in flight has returned and the responses have been sent
finish_all ==
    /\ pc = "serving"
    /\ \A h \in Handlers : req[h].at = "responded"
    /\ pc' = "idle"
    /\ req' = NoRequest
    /\ UNCHANGED <<model, log, propensity_model, value_model, leads_data,
                   backend_calls, caught>>

----------------------------------------------------------------------------
(* Specifications                                                          *)

\* The values of FAST_START: any, and those that enable the flag
AnyStart == {"false", "FALSE", "0", "no", "", "1", "true", "TRUE", "Yes"}
FastStart == {"1", "true", "True", "TRUE", "yes", "Yes"}

\* Requests supplying at most one optional parameter, with any limit
Sourcing1 == WithLimit(AtMost(1, SourcingFilters), Limits)
Scoring1 == WithLimit(AtMost(1, ScoringFilters), Limits)
Contract1 == WithLimit(AtMost(1, ContractFilters), Limits)
SourcingSummary1 == AtMost(1, SourcingFilters)
ScoringSummary1 == AtMost(1, ScoringFilters)
ContractSummary1 == AtMost(1, ContractFilters)
Overview1 == AtMost(1, OverviewFilters)

\* The whole API, every request supplying at most one optional parameter
Next ==
    \/ startup_event(AnyStart, CsvFiles)
    \/ get_leads
    \/ get_lead_sourcing_data(Sourcing1, NowHours)
    \/ get_lead_scoring_data(Scoring1, ScoringDraws)
    \/ get_contract_value_data(Contract1, ContractDraws)
    \/ get_sourcing_summary(SourcingSummary1, NowHours)
    \/ get_scoring_summary(ScoringSummary1)
    \/ get_contract_value_summary(ContractSummary1)
    \/ get_lead_stats
    \/ predict_leads(PredictRequests)
    \/ get_gtm_overview_summary(Overview1)
    \/ get_pipeline_health_summary(Overview1)
    \/ get_industry_analysis_summary(Overview1)
    \/ get_competitive_landscape_summary(Overview1)
    \/ get_product_tier_summary(Overview1)
    \/ get_lead_source_summary(Overview1)
    \/ get_observability_adoption_summary(Overview1)
    \/ Finish

Spec == Init /\ [][Next]_vars

\* Requests supplying at most two optional parameters, with any limit
Sourcing2 == WithLimit(AtMost(2, SourcingFilters), Limits)
Scoring2 == WithLimit(AtMost(2, ScoringFilters), Limits)
Contract2 == WithLimit(AtMost(2, ContractFilters), Limits)

\* The listing endpoints, every request supplying at most two optional
\* parameters and any limit, in a process started with FAST_START set
NextListing ==
    \/ startup_event(FastStart, CsvFiles)
    \/ get_leads
    \/ get_lead_sourcing_data(Sourcing2, NowHours)
    \/ get_lead_scoring_data(Scoring2, ScoringDraws)
    \/ get_contract_value_data(Contract2, ContractDraws)
    \/ Finish

SpecListing == Init /\ [][NextListing]_vars

\* Requests supplying at most two optional parameters (so every min/max
\* pair of one field), the listing requests with a limit above the table
\* size
SourcingAll2 == WithLimit(AtMost(2, SourcingFilters), {10})
ScoringAll2 == WithLimit(AtMost(2, ScoringFilters), {10})
ContractAll2 == WithLimit(AtMost(2, ContractFilters), {10})
SourcingSummary2 == AtMost(2, SourcingFilters)
ScoringSummary2 == AtMost(2, ScoringFilters)
ContractSummary2 == AtMost(2, ContractFilters)

\* The filtered listing and summary endpoints
NextFilters ==
    \/ startup_event(FastStart, CsvFiles)
    \/ get_lead_sourcing_data(SourcingAll2, NowHours)
    \/ get_lead_scoring_data(ScoringAll2, ScoringDraws)
    \/ get_contract_value_data(ContractAll2, ContractDraws)
    \/ get_sourcing_summary(SourcingSummary2, NowHours)
    \/ get_scoring_summary(ScoringSummary2)
    \/ get_contract_value_summary(ContractSummary2)
    \/ Finish

SpecFilters == Init /\ [][NextFilters]_vars

\* Predictions and the plain listing in a process started with FAST_START
\* set to a value that enables the flag
NextFastStart ==
    \/ startup_event(FastStart, CsvFiles)
    \/ predict_leads(PredictRequests)
    \/ get_leads
    \/ Finish

SpecFastStart == Init /\ [][NextFastStart]_vars

\* The CSV file of the seeded scenario: three records with nr_fit_score
\* 0.9, 0.5, 0.1, employee_count 2000, 500, 10 and revenue 5e6, 1e6, 1e5,
\* in any order of the lines
SeededRows ==
    <<Row("Acme", Str("Technology"), Num(2000), Num(5000000), Num(25),
          Num(900), Str("Pro"), Num(120000), Str("Datadog"), Bool(TRUE)),
      Row("Core", Str("Finance"), Num(500), Num(1000000), Num(10),
          Num(500), Str("Standard"), Num(40000), NaN, Bool(FALSE)),
      Row("Bolt", Str("Healthcare"), Num(10), Num(100000), Num(3),
          Num(100), Str("Free"), Num(0), NaN, Bool(FALSE))>>

SeededFiles ==
    { [i \in 1..3 |-> SeededRows[perm[i]]] :
        perm \in { f \in [1..3 -> 1..3] : \A i, j \in 1..3 :
                                              f[i] = f[j] => i = j } }

\* The sourcing listing over the seeded table
NextSeeded ==
    \/ startup_event(FastStart, SeededFiles)
    \/ get_lead_sourcing_data(Sourcing2, NowHours)
    \/ Finish

SpecSeeded == Init /\ [][NextSeeded]_vars

\* CSV files whose lines are distinct records, two of them (Acme and Apex)
\* with the same numbers and so the same sort key on every endpoint
TiePool ==
    { Row("Acme", Str("Technology"), Num(2000), Num(5000000), Num(25),
          Num(900), Str("Pro"), Num(120000), Str("Datadog"), Bool(TRUE)),
      Row("Apex", Str("Technology"), Num(2000), Num(5000000), Num(25),
          Num(900), Str("Pro"), Num(120000), Str("Datadog"), Bool(TRUE)),
      Row("Bolt", Str("Healthcare"), Num(10), Num(100000), Num(3), Num(100),
          Str("Free"), Num(0), NaN, Bool(FALSE)) }

TieFiles ==
    { rows \in UNION { [1..n -> TiePool] : n \in 0..MaxRows } :
        \A i, j \in 1..Len(rows) : rows[i] = rows[j] => i = j }

\* The filtered listings over tables with equal sort keys
NextTies ==
    \/ startup_event(FastStart, TieFiles)
    \/ get_lead_sourcing_data(Sourcing1, NowHours)
    \/ get_lead_scoring_data(Scoring1, ScoringDraws)
    \/ get_contract_value_data(Contract1, ContractDraws)
    \/ Finish

SpecTies == Init /\ [][NextTies]_vars

\* The outreach endpoint
NextOutreach ==
    \/ startup_event(FastStart, CsvFiles)
    \/ generate_outreach(OutreachRequests)
    \/ Finish

SpecOutreach == Init /\ [][NextOutreach]_vars

\* The two liveness endpoints after any startup
NextLiveness ==
    \/ startup_event(AnyStart, CsvFiles)
    \/ root
    \/ health_check(NowHours)
    \/ get_leads
    \/ Finish

SpecLiveness == Init /\ [][NextLiveness]_vars

\* CSV files whose records have an employee_count on either side of each
\* company_size threshold, or none
SizePool ==
    { Row("Echo", Str("Technology"), emp, Num(1000000), Num(5), Num(500),
          Str("Pro"), Num(1000), Str("Datadog"), Bool(TRUE)) :
      emp \in {Num(50), Num(51), Num(200), Num(201), Num(1000), Num(1001),
               NaN} }
SizeFiles == UNION { [1..n -> SizePool] : n \in 0..MaxRows }

\* requests that supply company_size or nothing
OverviewSizes == {p \in OverviewFilters : p.industry = None}

\* The endpoints that take company_size, over these files
NextSizes ==
    \/ startup_event(FastStart, SizeFiles)
    \/ get_gtm_overview_summary(OverviewSizes)
    \/ get_pipeline_health_summary(OverviewSizes)
    \/ get_industry_analysis_summary(OverviewSizes)
    \/ get_competitive_landscape_summary(OverviewSizes)
    \/ get_product_tier_summary(OverviewSizes)
    \/ get_lead_source_summary(OverviewSizes)
    \/ get_observability_adoption_summary(OverviewSizes)
    \/ Finish

SpecSizes == Init /\ [][NextSizes]_vars

\* One call of either fit score function of the data generator
NextGenerator ==
    \/ CallFitScore
    \/ CallRealisticFitScore

SpecGenerator == InitGenerator /\ [][NextGenerator]_vars

\* Two handlers in flight at a time, their steps interleaved in any order
NextConcurrent ==
    \/ startup_event(AnyStart, CsvFiles)
    \/ accept_requests
    \/ scoring_derive
    \/ scoring_respond
    \/ summary_derive
    \/ summary_respond
    \/ outreach_respond
    \/ finish_all

SpecConcurrent == Init /\ [][NextConcurrent]_vars

----------------------------------------------------------------------------
(* Properties                                                              *)

ListingEndpoints == {"leads", "sourcing", "scoring", "contract-value"}
FilteredListings == {"sourcing", "scoring", "contract-value"}
FilteredSummaries == {"summary/sourcing", "summary/scoring",
                      "summary/contract-value"}

SummaryEndpoints ==
    FilteredSummaries \cup
    {"summary/gtm-overview", "summary/pipeline-health",
     "summary/industry-analysis", "summary/competitive-landscape",
     "summary/product-tiers", "summary/lead-sources",
     "summary/observability-adoption"}

\* the endpoints that read the lead table
DataEndpoints == ListingEndpoints \cup SummaryEndpoints \cup {"leads/stats"}

\* a handler has answered 200 on one of the endpoints es
Answered(es) == pc = "responded" /\ req.status = 200 /\ req.endpoint \in es

\* The derived frame the handler that ran filtered: the table with the
\* derived columns of its endpoint, computed from the draws it made
DerivedFrame ==
    CASE req.endpoint = "sourcing" ->
            SourcingDerive(leads_data.rows, req.draws.now)
      [] req.endpoint = "scoring" -> ScoringDerive(leads_data.rows, req.draws)
      [] req.endpoint = "contract-value" ->
            ContractDerive(leads_data.rows, req.draws)
      [] req.endpoint = "summary/sourcing" ->
            SourcingSummaryDerive(leads_data.rows)
      [] req.endpoint = "summary/scoring" ->
            ScoringSummaryDerive(leads_data.rows, req.draws)
      [] req.endpoint = "summary/contract-value" ->
            ContractSummaryDerive(leads_data.rows, req.draws)
      [] OTHER -> leads_data.rows

\* Every filter parameter with the column it constrains and its comparison
Predicates ==
    {[param |-> "industry", field |-> "industry", op |-> "eq"],
     [param |-> "value_tier", field |-> "value_tier", op |-> "eq"],
     [param |-> "min_employee_count", field |-> "employee_count",
      op |-> "ge"],
     [param |-> "max_employee_count", field |-> "employee_count",
      op |-> "le"],
     [param |-> "min_sourcing_score", field |-> "sourcing_score",
      op |-> "ge"],
     [param |-> "max_sourcing_score", field |-> "sourcing_score",
      op |-> "le"],
     [param |-> "days_since_created_max", field |-> "days_since_created",
      op |-> "le"],
     [param |-> "min_conversion_probability",
      field |-> "conversion_probability", op |-> "ge"],
     [param |-> "max_conversion_probability",
      field |-> "conversion_probability", op |-> "le"],
     [param |-> "min_engagement_score", field |-> "engagement_score",
      op |-> "ge"],
     [param |-> "max_engagement_score", field |-> "engagement_score",
      op |-> "le"],
     [param |-> "min_urgency_score", field |-> "urgency_score", op |-> "ge"],
     [param |-> "max_urgency_score", field |-> "urgency_score", op |-> "le"],
     [param |-> "min_composite_score", field |-> "composite_score",
      op |-> "ge"],
     [param |-> "max_composite_score", field |-> "composite_score",
      op |-> "le"],
     [param |-> "min_contract_value", field |-> "estimated_contract_value",
      op |-> "ge"],
     [param |-> "max_contract_value", field |-> "estimated_contract_value",
      op |-> "le"],
     [param |-> "min_upsell_potential", field |-> "upsell_potential",
      op |-> "ge"],
     [param |-> "max_upsell_potential", field |-> "upsell_potential",
      op |-> "le"],
     [param |-> "min_renewal_probability", field |-> "renewal_probability",
      op |-> "ge"],
     [param |-> "max_renewal_probability", field |-> "renewal_probability",
      op |-> "le"]}

\* the predicate a parameter value v states about a cell c; a missing or
\* infinite cell satisfies no equality and a missing cell no bound
Holds(op, c, v) ==
    CASE op = "eq" -> c.k = "str" /\ v.k = "str" /\ c.s = v.s
      [] op = "ge" -> c.k = "inf" \/ (c.k = "num" /\ c.n >= v.n)
      [] op = "le" -> c.k = "num" /\ c.n <= v.n

\* a parameter value constrains when it is supplied; with empty_counts
\* FALSE an empty string does not constrain
Constrains(v, empty_counts) == v # None /\ (empty_counts \/ v # Str(""))

\* row satisfies the predicate of every parameter of p that constrains
Satisfies(row, p, empty_counts) ==
    \A q \in Predicates :
        (q.param \in DOMAIN p /\ Constrains(p[q.param], empty_counts))
            => Holds(q.op, row[q.field], p[q.param])

NeitherScoreBound(p) ==
    /\ "min_sourcing_score" \in DOMAIN p
    /\ p.min_sourcing_score = None
    /\ p.max_sourcing_score = None

AboveFloor(row) ==
    row.sourcing_score.k = "inf"
    \/ (row.sourcing_score.k = "num" /\ row.sourcing_score.n > SourcingFloor)

\* index labels of the rows that satisfy every constraining predicate of the
\* request, and the default floor where it applies
Passing(empty_counts) ==
    {DerivedFrame[i].idx.n : i \in
        {j \in 1..Len(DerivedFrame) :
            /\ Satisfies(DerivedFrame[j], req.params, empty_counts)
            /\ NeitherScoreBound(req.params) => AboveFloor(DerivedFrame[j])}}

\* index labels of filtered_data before the sort and the truncation
FilteredSet == {req.filtered[i] : i \in 1..Len(req.filtered)}

Min(a, b) == IF a <= b THEN a ELSE b

\* C1: without a lead table every endpoint that reads it answers 404 with
\* the fixed non-empty detail "No leads data available", whatever the query
\* parameters, and has derived and filtered nothing and made no backend call
C1_NotFoundWithoutTable ==
    (pc = "responded" /\ leads_data.none /\ req.endpoint \in DataEndpoints) =>
        /\ req.status = 404
        /\ req.detail = "No leads data available"
        /\ req.detail # ""
        /\ req.draws = NoDraws
        /\ req.filtered = <<>>
        /\ backend_calls = 0

C1_Witness ==
    /\ pc = "responded"
    /\ leads_data.none
    /\ req.endpoint = "summary/industry-analysis"
    /\ req.params.industry = Str("Technology")
    /\ model = "configured"
    /\ req.status = 404

\* C2: for a non-negative limit the listing endpoints return
\* min(limit, rows passing the filters) records, /api/leads
\* min(limit, table size)
C2_ResultLength ==
    (Answered(ListingEndpoints) /\ req.params.limit >= 0) =>
        /\ Len(req.body) = Min(req.params.limit, Len(req.filtered))
        /\ req.endpoint = "leads" => Len(req.filtered) = Len(leads_data.rows)

C2_Witness ==
    /\ Answered({"scoring"})
    /\ req.params.limit = 1
    /\ Len(req.filtered) = 2
    /\ Len(req.body) = 1

SortKey ==
    CASE req.endpoint = "sourcing" -> "sourcing_score"
      [] req.endpoint = "scoring" -> "composite_score"
      [] req.endpoint = "contract-value" -> "estimated_contract_value"

\* order of two serialized sort keys
NonIncreasing(a, b) ==
    \/ a.k = "inf"
    \/ a.k = "num" /\ b.k = "num" /\ a.n >= b.n

\* C3: in every response of the three filtered listing endpoints the
\* serialized sort key is non-increasing from each record to the next
C3_SortedDescending ==
    Answered(FilteredListings) =>
        \A i \in 1..(Len(req.body) - 1) :
            NonIncreasing(req.body[i][SortKey], req.body[i + 1][SortKey])

\* C4 as stated: the pre-truncation result holds exactly the rows that
\* satisfy the predicate of every supplied parameter, and the default floor
C4_SuppliedFiltersCompose ==
    Answered(FilteredListings) => FilteredSet = Passing(TRUE)

\* C4: the pre-truncation result of the three filtered listing endpoints
\* holds exactly the rows that satisfy the predicate of every parameter
\* supplied with a non-empty value, and the sourcing default floor where it
\* applies; an omitted parameter, and an industry or value_tier supplied as
\* the empty string, imposes no constraint
C4_NonEmptyFiltersCompose ==
    Answered(FilteredListings) => FilteredSet = Passing(FALSE)

C4_Witness ==
    /\ Answered({"sourcing"})
    /\ req.params.industry = Str("Technology")
    /\ req.params.min_employee_count = Num(40)
    /\ Len(leads_data.rows) = 2
    /\ Len(req.filtered) = 1

MinMaxPairs ==
    {<<"min_employee_count", "max_employee_count">>,
     <<"min_sourcing_score", "max_sourcing_score">>,
     <<"min_conversion_probability", "max_conversion_probability">>,
     <<"min_engagement_score", "max_engagement_score">>,
     <<"min_urgency_score", "max_urgency_score">>,
     <<"min_composite_score", "max_composite_score">>,
     <<"min_contract_value", "max_contract_value">>,
     <<"min_upsell_potential", "max_upsell_potential">>,
     <<"min_renewal_probability", "max_renewal_probability">>}

\* the request supplies a min above the max of the same field
Inverted(p) ==
    \E m \in MinMaxPairs :
        /\ m[1] \in DOMAIN p
        /\ p[m[1]] # None
        /\ p[m[2]] # None
        /\ p[m[1]].n > p[m[2]].n

\* C5: with a lead table loaded, a request whose min is above its max on the
\* same field is answered 200 with an empty result: no record in a listing,
\* record_count 0 in a summary
C5_InvertedBoundsEmpty ==
    (pc = "responded" /\ ~leads_data.none /\ Inverted(req.params)) =>
        /\ req.status = 200
        /\ req.filtered = <<>>
        /\ IF req.endpoint \in FilteredListings
           THEN Len(req.body) = 0
           ELSE req.body.record_count = Num(0)

C5_Witness ==
    /\ pc = "responded"
    /\ req.endpoint = "summary/scoring"
    /\ Len(leads_data.rows) = 2
    /\ req.params.min_conversion_probability = Num(5000)
    /\ req.params.max_conversion_probability = Num(2000)
    /\ \E i \in 1..2 : DerivedFrame[i].conversion_probability.n >= 5000
    /\ \E i \in 1..2 : DerivedFrame[i].conversion_probability.n <= 2000
    /\ req.body.record_count = Num(0)

\* C6: in the sourcing listing and the sourcing summary, when neither
\* sourcing-score bound is supplied every kept row scores strictly above
\* 0.6; when one is supplied the floor is not applied, so every row that
\* satisfies the supplied predicates is kept, whatever its score (stated for
\* requests without days_since_created_max)
C6_DefaultFloor ==
    Answered({"sourcing", "summary/sourcing"}) =>
        LET p == req.params
            D == DerivedFrame
        IN /\ NeitherScoreBound(p) =>
                \A i \in 1..Len(D) :
                    D[i].idx.n \in FilteredSet => AboveFloor(D[i])
           /\ (~NeitherScoreBound(p) /\ p.days_since_created_max = None) =>
                \A i \in 1..Len(D) :
                    Satisfies(D[i], p, FALSE)
                        => D[i].idx.n \in FilteredSet

C6_Witness ==
    /\ Answered({"summary/sourcing"})
    /\ req.params.min_sourcing_score = Num(0)
    /\ \E i \in 1..Len(DerivedFrame) :
          /\ ~AboveFloor(DerivedFrame[i])
          /\ DerivedFrame[i].idx.n \in FilteredSet
    /\ req.body.record_count = Num(Len(leads_data.rows))
    /\ Len(leads_data.rows) = 2

\* C7: the missing values are replaced after the filters have run: no
\* record of a listing response comes from a row whose value in a column
\* bounded by a supplied min or max was missing
C7_FiltersSeeMissing ==
    Answered(FilteredListings) =>
        \A r \in 1..Len(req.body) :
            \A q \in {x \in Predicates : x.op \in {"ge", "le"}} :
                (q.param \in DOMAIN req.params /\ req.params[q.param] # None)
                => \A i \in 1..Len(DerivedFrame) :
                      DerivedFrame[i].company_name = req.body[r].company_name
                          => ~isna(DerivedFrame[i][q.field])

C7_Witness ==
    /\ Answered({"sourcing"})
    /\ req.params.min_sourcing_score = Num(0)
    /\ \E i \in 1..Len(DerivedFrame) : isna(DerivedFrame[i].sourcing_score)
    /\ Len(leads_data.rows) = 2
    /\ Len(req.body) = 1

NonFinite(c) == c.k \in {"nan", "inf"}

\* no value of a JSON object (a record, or a dict keyed by strings) is NaN
\* or an infinity
FiniteValues(d) == \A f \in DOMAIN d : ~NonFinite(d[f])

\* C8: no response body contains a NaN or an infinity
C8_NoNonFiniteInBody ==
    Answered(ListingEndpoints \cup FilteredSummaries
             \cup {"leads/stats", "summary/gtm-overview",
                   "summary/pipeline-health", "summary/industry-analysis",
                   "summary/competitive-landscape", "summary/product-tiers",
                   "summary/lead-sources",
                   "summary/observability-adoption"}) =>
        CASE req.endpoint \in ListingEndpoints ->
                \A i \in 1..Len(req.body) : FiniteValues(req.body[i])
          [] req.endpoint = "leads/stats" ->
                /\ FiniteValues([f \in (DOMAIN req.body) \ {"industries"} |->
                                    req.body[f]])
                /\ FiniteValues(req.body.industries)
          [] req.endpoint = "summary/gtm-overview" ->
                LET m == req.body.overview_metrics
                    dicts == {"industry_distribution",
                              "company_size_distribution",
                              "competitor_distribution"}
                IN /\ FiniteValues([f \in (DOMAIN m) \ dicts |-> m[f]])
                   /\ \A f \in dicts : FiniteValues(m[f])
          [] req.endpoint = "summary/pipeline-health" ->
                FiniteValues(req.body.pipeline_metrics)
          [] req.endpoint = "summary/industry-analysis" ->
                LET m == req.body.industry_metrics
                IN \A f \in DOMAIN m : FiniteValues(m[f])
          [] req.endpoint = "summary/competitive-landscape" ->
                LET m == req.body.competitive_metrics
                IN /\ FiniteValues(m.competitor_distribution)
                   /\ FiniteValues(m.competitor_conversion_rates)
                   /\ ~NonFinite(m.switching_opportunities)
          [] OTHER -> FiniteValues(req.body)

NumericFields == {"employee_count", "revenue", "pages_visited",
                  "nr_fit_score", "contract_value", "sourcing_score",
                  "days_since_created", "created_at",
                  "conversion_probability", "engagement_score",
                  "urgency_score", "composite_score",
                  "estimated_contract_value", "upsell_potential",
                  "renewal_probability"}
TierFields == {"nr_tier", "value_tier"}

\* C9: in every record of a listing response every numeric field is a
\* finite number, every tier field a string and competitor_tool a string or
\* null
C9_DefaultsReplaceMissing ==
    Answered(ListingEndpoints) =>
        \A i \in 1..Len(req.body) :
            LET rec == req.body[i] IN
            /\ \A f \in NumericFields \cap DOMAIN rec : rec[f].k = "num"
            /\ \A f \in TierFields \cap DOMAIN rec : rec[f].k = "str"
            /\ rec.competitor_tool.k \in {"str", "none"}

\* C10: once startup has run, no step changes the lead table
C10_TableUnchanged ==
    [][pc # "boot" => leads_data' = leads_data]_vars

C10_Witness ==
    /\ Answered({"contract-value"})
    /\ Len(req.body) = 2
    /\ req.body[1].estimated_contract_value.k = "num"
    /\ \A i \in 1..Len(leads_data.rows) :
          "estimated_contract_value" \notin DOMAIN leads_data.rows[i]

----------------------------------------------------------------------------
(* Predictions, the summary backend and startup                            *)

NoModels == propensity_model = "None" /\ value_model = "None"

\* C11: a prediction request with an empty leads list is answered 200 with
\* an empty predictions list and a summary whose avg_propensity is 0,
\* whether or not the models are loaded
C11_EmptyPredictSucceeds ==
    (pc = "responded" /\ req.endpoint = "predict" /\ req.params.leads = <<>>)
        => /\ req.status = 200
           /\ req.body.predictions = <<>>
           /\ req.body.summary.total_leads = Num(0)
           /\ req.body.summary.avg_propensity = Num(0)

CellInRange(c, lo, hi) == c.k = "num" /\ lo <= c.n /\ c.n <= hi

\* C12: without loaded models a prediction request with at least one lead
\* is answered 200 with one prediction per lead, in input order and with
\* the lead's company_name, propensity_score and priority_score in
\* [0.1, 0.9], contract_value in [10000, 500000], confidence in [0.7, 0.95],
\* total_leads the number of leads and high_priority_count at most that
C12_MockPredictions ==
    (pc = "responded" /\ req.endpoint = "predict" /\ NoModels
       /\ req.params.leads # <<>>)
        => /\ req.status = 200
           /\ LET leads == req.params.leads
                  predictions == req.body.predictions
                  summary == req.body.summary
              IN /\ Len(predictions) = Len(leads)
                 /\ \A i \in 1..Len(leads) :
                       /\ predictions[i].company_name = leads[i].company_name
                       /\ CellInRange(predictions[i].propensity_score,
                                    1000, 9000)
                       /\ CellInRange(predictions[i].priority_score, 1000, 9000)
                       /\ CellInRange(predictions[i].contract_value,
                                    10000, 500000)
                       /\ CellInRange(predictions[i].confidence, 7000, 9500)
                 /\ summary.total_leads = Num(Len(leads))
                 /\ summary.high_priority_count.n <= summary.total_leads.n

C12_Witness ==
    /\ pc = "responded"
    /\ req.endpoint = "predict"
    /\ NoModels
    /\ req.status = 200
    /\ Len(req.params.leads) = 2
    /\ req.params.leads[1].company_name = Str("Acme")
    /\ req.params.leads[2].company_name = Str("Bolt")
    /\ req.body.predictions[2].company_name = Str("Bolt")
    /\ req.body.summary.high_priority_count = Num(1)

\* C13: with a table loaded and no backend handle, every summary endpoint
\* answers 200 with the fixed sentinel as its summary, for every filter set
\* and every filtered record set, having called no backend and caught no
\* exception
C13_SentinelWithoutBackend ==
    (pc = "responded" /\ req.endpoint \in SummaryEndpoints
       /\ ~leads_data.none /\ model = "None")
        => /\ req.status = 200
           /\ req.body.summary =
                 Str("AI summary unavailable - Gemini API key not configured")
           /\ backend_calls = 0
           /\ caught = "None"

C13_Witness ==
    /\ Answered({"summary/sourcing"})
    /\ model = "None"
    /\ Len(leads_data.rows) = 2
    /\ req.filtered = <<>>
    /\ req.body.summary = Str(SummaryUnavailable)
    /\ req.body.record_count = Num(0)

ErrorSummaries ==
    {Str("Error generating summary: digest failure"),
     Str("Error generating summary: backend failure")}

\* C14: with a table loaded and a backend handle, an exception raised in
\* generate_executive_summary, while building the digest or in the backend
\* call, never fails the request: the summary endpoint answers 200 with
\* "Error generating summary: <message>" as its summary and with the
\* record_count of the filtered rows
C14_BackendErrorBecomesSummary ==
    (pc = "responded" /\ req.endpoint \in SummaryEndpoints
       /\ ~leads_data.none /\ model = "configured")
        => /\ req.status = 200
           /\ req.body.record_count = Num(Len(req.filtered))
           /\ caught # "None" <=> req.body.summary \in ErrorSummaries

C14_Witness ==
    /\ Answered({"summary/gtm-overview"})
    /\ model = "configured"
    /\ caught = "backend"
    /\ backend_calls = 1
    /\ req.body.summary = Str("Error generating summary: backend failure")
    /\ req.body.record_count = Num(2)

\* C15: startup completes whatever files are present; afterwards the two
\* models are both loaded or both None, both None when a blob failed to
\* load, and the table is None exactly when the CSV failed to load, in
\* which case the endpoints that read it answer 404
C15_StartupDegrades ==
    /\ pc = "boot" => ENABLED startup_event(AnyStart, CsvFiles)
    /\ pc # "boot" =>
          /\ propensity_model = value_model
          /\ propensity_model \in {"loaded", "None"}
          /\ log[1] = "Models not found or failed to load" => NoModels
          /\ log[2] = "Sample data not found or failed to load"
                <=> leads_data.none
          /\ (pc = "responded" /\ leads_data.none
                /\ req.endpoint \in DataEndpoints) => req.status = 404

C15_Witness ==
    /\ pc = "responded"
    /\ log = <<"Models not found or failed to load",
               "Sample data not found or failed to load">>
    /\ NoModels
    /\ leads_data.none
    /\ req.endpoint = "leads"
    /\ req.status = 404

\* C16: started with FAST_START set to 1, true or yes in any letter case,
\* the process skips the model load, so both models are None and every
\* prediction comes from the branch without models; the CSV is loaded, or
\* fails to load, as usual
C16_FastStartSkipsModels ==
    pc # "boot" =>
        /\ NoModels
        /\ log[1] = "FAST_START enabled: skipping model load"
        /\ log[2] = "Sample data loaded successfully" <=> ~leads_data.none
        /\ (pc = "responded" /\ req.endpoint = "predict")
              => req.draws.branch = "models not available"

C16_Witness ==
    /\ pc = "responded"
    /\ req.endpoint = "predict"
    /\ req.status = 200
    /\ req.draws.branch = "models not available"
    /\ log[1] = "FAST_START enabled: skipping model load"
    /\ Len(leads_data.rows) = 2
    /\ Len(req.body.predictions) = 2

----------------------------------------------------------------------------
(* Derived columns                                                         *)

Names(records) == [i \in 1..Len(records) |-> records[i].company_name.s]

NoSourcingFilter(p) ==
    /\ p.industry = None
    /\ p.min_employee_count = None
    /\ p.max_employee_count = None
    /\ p.days_since_created_max = None

\* C17: over the seeded table, the sourcing listing with no score bound and
\* limit 10 returns Acme (sourcing_score 2.46) and then Core (0.65), and not
\* Bolt (0.073); with further filters it returns some of these two, in this
\* order
C17_SeededSourcing ==
    (Answered({"sourcing"}) /\ NeitherScoreBound(req.params)
       /\ req.params.limit = 10)
        => /\ Names(req.body) \in {<<"Acme", "Core">>, <<"Acme">>, <<"Core">>,
                                   <<>>}
           /\ \A i \in 1..Len(req.body) :
                 req.body[i].sourcing_score =
                     IF req.body[i].company_name = Str("Acme")
                     THEN Num(24600000) ELSE Num(6500000)
           /\ NoSourcingFilter(req.params)
                 => Names(req.body) = <<"Acme", "Core">>

C17_Witness ==
    /\ Answered({"sourcing"})
    /\ NeitherScoreBound(req.params)
    /\ NoSourcingFilter(req.params)
    /\ req.params.limit = 10
    /\ Names(leads_data.rows) = <<"Bolt", "Core", "Acme">>
    /\ Names(req.body) = <<"Acme", "Core">>

\* the rows of the table a returned record may come from
RowsOf(record) ==
    {i \in 1..Len(leads_data.rows) :
        leads_data.rows[i].company_name = record.company_name}

\* C18: in every scoring listing, a returned record whose row has a fit
\* score carries a conversion_probability between nr_fit_score*0.7 and
\* nr_fit_score*0.7 + 0.3, whatever number was drawn
C18_ConversionProbabilityRange ==
    Answered({"scoring"}) =>
        \A r \in 1..Len(req.body) : \A i \in RowsOf(req.body[r]) :
            LET fit == leads_data.rows[i].nr_fit_score
                conv == req.body[r].conversion_probability
            IN fit.k = "num" =>
                  /\ conv.k = "num"
                  /\ fit.n * 7 <= conv.n
                  /\ conv.n <= fit.n * 7 + 3000

C18_Witness ==
    /\ Answered({"scoring"})
    /\ req.draws.conv = 3000
    /\ Len(req.body) = 2
    /\ req.body[1].company_name = Str("Acme")
    /\ req.body[1].conversion_probability = Num(900 * 7 + 3000)
    /\ req.body[2].company_name = Str("Dune")
    /\ req.body[2].conversion_probability = Num((-1000) * 7 + 3000)

\* The tier of a positive value in cents, by the intervals (0, 50000],
\* (50000, 150000], (150000, 500000] and above 500000
TierOf(cents) ==
    CASE 0 < cents /\ cents <= 5000000 -> "Standard"
      [] 5000000 < cents /\ cents <= 15000000 -> "Professional"
      [] 15000000 < cents /\ cents <= 50000000 -> "Enterprise"
      [] 50000000 < cents -> "Strategic"

\* values in cents at and around every breakpoint
TierProbes ==
    {1, 4999999, 5000000, 5000001, 14999999, 15000000, 15000001, 49999999,
     50000000, 50000001, 99999999}

\* C19: value_tier is a function of estimated_contract_value alone, giving
\* every positive value the tier of the one interval that holds it; every
\* returned record with a positive value carries that tier, and a request
\* filtered by value_tier returns only records of that tier and interval
C19_ValueTierBuckets ==
    /\ \A v \in TierProbes : value_tier(Num(v)) = Str(TierOf(v))
    /\ Answered({"contract-value"}) =>
          \A r \in 1..Len(req.body) :
              LET ecv == req.body[r].estimated_contract_value
                  tier == req.body[r].value_tier
              IN /\ (ecv.k = "num" /\ ecv.n > 0) => tier = Str(TierOf(ecv.n))
                 /\ Truthy(req.params.value_tier) =>
                       /\ tier = req.params.value_tier
                       /\ ecv.k = "num" /\ ecv.n > 0
                       /\ TierOf(ecv.n) = req.params.value_tier.s

C19_Witness ==
    /\ Answered({"contract-value"})
    /\ req.params.value_tier = Str("Enterprise")
    /\ Names(leads_data.rows) = <<"Bolt", "Acme">>
    /\ Names(req.body) = <<"Acme">>
    /\ req.body[1].value_tier = Str("Enterprise")
    /\ req.body[1].estimated_contract_value.n > 15000000

\* C20: in every contract-value listing, a returned record whose row has
\* revenue and employee_count carries an estimated_contract_value between
\* revenue*0.02 + employee_count*100 + 10000 and the same plus 50000
C20_ContractValueRange ==
    Answered({"contract-value"}) =>
        \A r \in 1..Len(req.body) : \A i \in RowsOf(req.body[r]) :
            LET revenue == leads_data.rows[i].revenue
                employee_count == leads_data.rows[i].employee_count
                ecv == req.body[r].estimated_contract_value
            IN (revenue.k = "num" /\ employee_count.k = "num") =>
                  /\ ecv.k = "num"
                  /\ revenue.n * 2 + employee_count.n * 10000 + 1000000
                        <= ecv.n
                  /\ ecv.n <= revenue.n * 2 + employee_count.n * 10000
                                + 5000000

C20_Witness ==
    /\ Answered({"contract-value"})
    /\ req.draws.base = 50000
    /\ Len(req.body) = 2
    /\ req.body[1].company_name = Str("Acme")
    /\ req.body[1].estimated_contract_value = Num(35000000)
    /\ req.body[2].company_name = Str("Bolt")
    /\ req.body[2].estimated_contract_value = Num(5300000)

----------------------------------------------------------------------------
(* Sort stability, outreach, concurrency and the remaining endpoints       *)

\* the position in the table of the row with this company_name
TableIndex(name) ==
    CHOOSE i \in 1..Len(leads_data.rows) :
        leads_data.rows[i].company_name = name

\* C21: over tables of distinct records, two returned records with equal
\* sort key appear in the order their rows have in the table
C21_StableSort ==
    Answered(FilteredListings) =>
        \A r, t \in 1..Len(req.body) :
            (r < t /\ req.body[r][SortKey] = req.body[t][SortKey])
                => TableIndex(req.body[r].company_name)
                      < TableIndex(req.body[t].company_name)

OutreachFields ==
    {"outreach_text", "personalization_score", "suggested_follow_up",
     "personalization_insights", "key_signals_used"}

\* C22: the outreach endpoint always answers 200 with the five fields and a
\* personalization_score of at most 0.95; when the backend is not
\* available, raises, or returns something that is not a JSON object, the
\* body is the template of the request and nothing else
C22_OutreachFallback ==
    (pc = "responded" /\ req.endpoint = "outreach/generate") =>
        /\ req.status = 200
        /\ DOMAIN req.body = OutreachFields
        /\ req.body.personalization_score <= 95
        /\ req.body.key_signals_used.tech_stack = req.params.tech_stack
        /\ (req.draws.outcome \in {"not called", "raises", "not json",
                                   "not an object"})
              => req.body = generate_enhanced_template_outreach(req.params)

C22_Witness ==
    /\ Answered({"outreach/generate"})
    /\ model = "configured"
    /\ req.draws.outcome = "not json"
    /\ Len(req.params.tech_stack) = 4
    /\ Len(req.params.hiring_signals) = 3
    /\ req.params.industry = "Technology"
    /\ req.body.personalization_score = 95
    /\ req.body.outreach_text.tech_stack = <<"Java", "React", "Docker">>

\* C25: once started, whatever was loaded, the process answers GET / and
\* GET /health: both requests can be served in every idle state, / answers
\* 200 with message 'Lead Assessment POC API' and status 'running', /health
\* answers 200 with status 'healthy' and the clock reading as timestamp
C25_LivenessEndpoints ==
    /\ pc = "idle" => ENABLED root /\ ENABLED health_check(NowHours)
    /\ (pc = "responded" /\ req.endpoint = "/") =>
          /\ req.status = 200
          /\ req.body = [message |-> "Lead Assessment POC API",
                         status |-> "running"]
    /\ (pc = "responded" /\ req.endpoint = "/health") =>
          /\ req.status = 200
          /\ req.body.status = "healthy"
          /\ req.body.timestamp.k = "str"
          /\ req.body.timestamp.n = req.draws.now

C25_Witness ==
    /\ pc = "responded"
    /\ req.endpoint = "/health"
    /\ req.status = 200
    /\ leads_data.none
    /\ NoModels
    /\ model = "None"
    /\ log[1] = "Models not found or failed to load"

C26_SummaryCountsListing ==
    Answered({"summary/sourcing"}) =>
        req.body.record_count =
            Num(Len(SourcingFilter(
                        SourcingDerive(leads_data.rows, req.draws.now),
                        req.params)))

\* C27: every conversion_probability derived by /api/summary/scoring lies
\* in [nr_fit_score*0.7, nr_fit_score*0.7 + 0.3] and every
\* estimated_contract_value derived by /api/summary/contract-value lies in
\* [revenue*0.02 + employee_count*100 + 10000, the same + 50000]
C27_SummaryDerivesAsListing ==
    /\ Answered({"summary/scoring"}) =>
          \A i \in 1..Len(DerivedFrame) :
              LET row == DerivedFrame[i] IN
              row.nr_fit_score.k = "num" =>
                  CellInRange(row.conversion_probability,
                              row.nr_fit_score.n * 7,
                              row.nr_fit_score.n * 7 + 3000)
    /\ Answered({"summary/contract-value"}) =>
          \A i \in 1..Len(DerivedFrame) :
              LET row == DerivedFrame[i] IN
              (row.revenue.k = "num" /\ row.employee_count.k = "num") =>
                  CellInRange(row.estimated_contract_value,
                              estimated_contract_value(row, 10000).n,
                              estimated_contract_value(row, 50000).n)

\* conversion_probability - 0.7*nr_fit_score of a returned record, in 1e-4
RandomTerm(record) ==
    IF record.conversion_probability.k = "num"
       /\ record.nr_fit_score.k = "num"
    THEN Num(record.conversion_probability.n - 7 * record.nr_fit_score.n)
    ELSE NaN

\* the request supplies no bound other than engagement and urgency bounds
OnlySharedBounds ==
    /\ ~Truthy(req.params.industry)
    /\ req.params.min_conversion_probability = None
    /\ req.params.max_conversion_probability = None
    /\ req.params.min_composite_score = None
    /\ req.params.max_composite_score = None

\* C29: in one /api/leads/scoring response engagement_score and
\* urgency_score are the same in all records, conversion_probability minus
\* 0.7*nr_fit_score is the number drawn for the request in all of them, the
\* records are in descending order of nr_fit_score, and engagement and
\* urgency bounds keep all rows of the table or none; in one
\* /api/leads/contract-value response upsell_potential and
\* renewal_probability are the same in all records
C29_SharedDraws ==
    /\ Answered({"scoring"}) =>
          /\ \A i \in 1..Len(req.body) :
                /\ req.body[i].engagement_score = Num(req.draws.engagement)
                /\ req.body[i].urgency_score = Num(req.draws.urgency)
                /\ RandomTerm(req.body[i]) = Num(req.draws.conv)
          /\ \A i \in 1..(Len(req.body) - 1) :
                NonIncreasing(req.body[i].nr_fit_score,
                              req.body[i + 1].nr_fit_score)
          /\ OnlySharedBounds =>
                Len(req.filtered) \in {0, Len(leads_data.rows)}
    /\ Answered({"contract-value"}) =>
          \A i \in 1..Len(req.body) :
              /\ req.body[i].upsell_potential = Num(req.draws.upsell)
              /\ req.body[i].renewal_probability = Num(req.draws.renewal)

SizedSummaries ==
    {"summary/gtm-overview", "summary/pipeline-health",
     "summary/industry-analysis", "summary/competitive-landscape",
     "summary/product-tiers", "summary/lead-sources",
     "summary/observability-adoption"}

CompanySizes == {"startup", "small", "medium", "large"}

\* the range of employee counts a company_size value names
InBand(size, n) ==
    CASE size = "startup" -> n <= 50
      [] size = "small" -> 51 <= n /\ n <= 200
      [] size = "medium" -> 201 <= n /\ n <= 1000
      [] size = "large" -> n > 1000

\* index labels of the rows of the table whose employee_count is in the
\* range of size
BandRows(size) ==
    {leads_data.rows[i].idx.n : i \in
        {j \in 1..Len(leads_data.rows) :
            /\ leads_data.rows[j].employee_count.k = "num"
            /\ InBand(size, leads_data.rows[j].employee_count.n)}}

\* the table holds no record without an employee_count
AllCounted ==
    \A i \in 1..Len(leads_data.rows) :
        leads_data.rows[i].employee_count.k = "num"

\* C28: a request to an endpoint that takes company_size, with a table
\* loaded, is answered 200 whatever the value is; with startup, small,
\* medium or large the records kept are those whose employee_count is at
\* most 50, in 51..200, in 201..1000 or above 1000, four sets that are
\* pairwise disjoint and together hold every record with an employee_count;
\* with any other value every record is kept; and the four counts of
\* company_size_distribution in gtm-overview add up to total_leads when no
\* record lacks an employee_count
C28_CompanySizeBands ==
    (pc = "responded" /\ req.endpoint \in SizedSummaries
     /\ ~leads_data.none /\ req.params.industry = None) =>
        /\ req.status = 200
        /\ \A size \in CompanySizes :
              req.params.company_size = Str(size) =>
                  /\ FilteredSet = BandRows(size)
                  /\ Len(req.filtered) = Cardinality(BandRows(size))
        /\ req.params.company_size \notin {Str(size) : size \in CompanySizes}
              => req.filtered = [i \in 1..Len(leads_data.rows) |->
                                    leads_data.rows[i].idx.n]
        /\ \A a, b \in CompanySizes :
              a # b => BandRows(a) \cap BandRows(b) = {}
        /\ UNION {BandRows(size) : size \in CompanySizes}
              = {leads_data.rows[i].idx.n : i \in
                    {j \in 1..Len(leads_data.rows) :
                        leads_data.rows[j].employee_count.k = "num"}}
        /\ (req.endpoint = "summary/gtm-overview" /\ AllCounted) =>
              LET dist == req.body.overview_metrics.company_size_distribution
              IN dist.startup.n + dist.small.n + dist.medium.n + dist.large.n
                    = req.body.overview_metrics.total_leads.n

C28_Witness ==
    /\ Answered({"summary/gtm-overview"})
    /\ req.params.company_size = Str("small")
    /\ Len(leads_data.rows) = 2
    /\ leads_data.rows[1].employee_count = Num(50)
    /\ leads_data.rows[2].employee_count = Num(51)
    /\ req.filtered = <<1>>

\* C30: calculate_nr_fit_score returns a score between 0 and 100, and
\* calculate_realistic_nr_fit_score one between 0 and 100 (0 and 10000 in
\* 1/100); when the points accumulated exceed 100 the score is 100
C30_FitScoreWithinRange ==
    /\ (pc = "returned" /\ req.endpoint = "calculate_nr_fit_score") =>
          /\ 0 <= req.body.score /\ req.body.score <= 100
          /\ req.body.points > 100 => req.body.score = 100
          /\ req.body.points \in 0..100 => req.body.score = req.body.points
    /\ (pc = "returned"
        /\ req.endpoint = "calculate_realistic_nr_fit_score") =>
          /\ 0 <= req.body.score /\ req.body.score <= 10000
          /\ req.body.points > 10000 => req.body.score = 10000
          /\ req.body.points \in 0..10000 =>
                req.body.score = req.body.points

C30_Witness ==
    /\ pc = "returned"
    /\ req.endpoint = "calculate_realistic_nr_fit_score"
    /\ req.params.tech_stack = <<"Docker", "Docker", "Docker">>
    /\ req.params.employee_count = 5001
    /\ req.params.industry = "SaaS"
    /\ req.params.competitor_tool = "Custom Solutions"
    /\ req.params.revenue = 100000001
    /\ req.body.points = 11950
    /\ req.body.score = 10000

\* The responses the request of r can get when its handler runs alone on
\* the state startup left, with the parameters and the draws of r
AloneResponses(r) ==
    CASE r.endpoint = "scoring" ->
            IF leads_data.none
            THEN {[status |-> 404, detail |-> "No leads data available",
                   body |-> <<>>]}
            ELSE LET scoring_data == ScoringDerive(leads_data.rows, r.draws)
                 IN {[status |-> 200, detail |-> "",
                      body |-> scoring_body(scoring_data, r.params, o)] :
                     o \in SortOrders(ScoringFilter(scoring_data, r.params),
                                      "composite_score")}
      [] r.endpoint = "summary/sourcing" ->
            IF leads_data.none
            THEN {[status |-> 404, detail |-> "No leads data available",
                   body |-> <<>>]}
            ELSE {[status |-> 200, detail |-> "",
                   body |-> SummaryBody(
                       generate_executive_summary(model,
                                                  r.draws.outcome).summary,
                       SourcingSummaryFilter(
                           SourcingSummaryDerive(leads_data.rows),
                           r.params, r.draws.now))]}
      [] r.endpoint = "outreach/generate" ->
            {[status |-> 200, detail |-> "",
              body |-> outreach_body(r.params, r.draws)]}

\* the columns of the CSV file, and the index
CsvColumns ==
    {"company_name", "industry", "employee_count", "revenue",
     "pages_visited", "nr_fit_score", "nr_tier", "contract_value",
     "competitor_tool", "converted", "idx"}

\* every handler that has returned answered as it would have alone, and
\* the table holds no column a handler derives
AnsweredAsAlone ==
    /\ pc # "boot" =>
          \A i \in 1..Len(leads_data.rows) :
              DOMAIN leads_data.rows[i] = CsvColumns
    /\ pc = "serving" =>
          \A h \in Handlers :
              req[h].at = "responded" =>
                  [status |-> req[h].status, detail |-> req[h].detail,
                   body |-> req[h].body] \in AloneResponses(req[h])

\* C23: once startup has run, however the steps of the handlers in flight
\* are interleaved, no step changes leads_data, propensity_model,
\* value_model or the summary backend handle, and every handler answers
\* with one of the responses its request gets when it runs alone
C23_HandlersDoNotInterfere ==
    /\ [][pc # "boot" =>
            UNCHANGED <<leads_data, propensity_model, value_model, model>>]_vars
    /\ []AnsweredAsAlone

C23_Witness ==
    /\ pc = "serving"
    /\ \A h \in Handlers : req[h].at = "responded" /\ req[h].status = 200
    /\ req[1].endpoint = "scoring" /\ req[2].endpoint = "scoring"
    /\ req[1].draws # req[2].draws
    /\ req[1].overlapped
    /\ Len(req[1].body) = 2 /\ Len(req[2].body) = 2
    /\ req[1].body[1].engagement_score # req[2].body[1].engagement_score

====
